---- MODULE Spec2Model ----
(***************************************************************************)
(* Model of the analysis worker manager (src/src/services/                 *)
(* analysis-worker.ts): the AnalysisWorkerManager singleton, its worker    *)
(* handshake, the per-request pending map and timers, and the in-process   *)
(* fallback.                                                               *)
(*                                                                         *)
(* Scheduling follows the JavaScript event loop.  A call of clusterNews /  *)
(* analyzeCorrelations runs synchronously up to its first await; what      *)
(* follows the await is a microtask.  Worker events and timers are tasks:  *)
(* they run only when the microtask queue is empty.  Caller code (a new    *)
(* call, reset(), terminate()) can run between the synchronous part of a   *)
(* call and its continuation, but not between a settled readiness promise  *)
(* and the continuations of the calls that awaited it.                     *)
(***************************************************************************)
EXTENDS Integers, Sequences, FiniteSets, TLC

\* ---------------------------------------------------------------- bounds
MaxCalls == 2       \* calls of clusterNews / analyzeCorrelations per run

\* ------------------------------------------------------------ input sets
NULL == "null"
Items == {"a"}                 \* payloads a caller passes in
Keys == {"K"}                  \* correlation dedup keys
Stamps == {10, 20}             \* serialized timestamps in a worker response

\* ------------------------------------------------------------- messages
ReadyTimeoutError == "Worker failed to become ready within timeout"
ConstructError == "Failed to create worker"
InitError == "Worker failed to initialize"
WorkerError == "Worker error"
ClusterTimeoutError == "Clustering request timed out"
CorrelationTimeoutError == "Correlation analysis request timed out"
ResetError == "Worker reset"
TerminatedError == "Worker terminated"
NullWorkerError == "TypeError: postMessage of null"

VARIABLES
    worker,                 \* NULL or "worker"
    pendingRequests,        \* Map: request id -> index of the call it settles
    requestTimers,          \* calls whose request timeout is armed
    requestIdCounter,
    isReady,
    workerUnavailableError, \* NULL or an error message
    fallbackSnapshot,       \* NullSnapshot or the snapshot of the last run
    recentSignalKeys,
    keyTimers,              \* per key, the number of armed 30-minute timers
    readyPromise,           \* NULL, "pending" or "resolved"
    readyTimeout,           \* TRUE when the handshake timer is armed
    posted,                 \* messages posted to the worker, not yet answered
    calls,                  \* the calls made so far, in call order
    sinceTerminate          \* terminate() ran and no call was made since

vars == <<worker, pendingRequests, requestTimers, requestIdCounter, isReady,
          workerUnavailableError, fallbackSnapshot, recentSignalKeys, keyTimers,
          readyPromise, readyTimeout, posted, calls, sinceTerminate>>

mgrVars == <<worker, isReady, workerUnavailableError, readyPromise, readyTimeout>>
fbVars == <<fallbackSnapshot, recentSignalKeys, keyTimers>>
reqVars == <<pendingRequests, requestTimers, requestIdCounter, posted>>

\* State of the other specifications of this module (the timed dedup window,
\* the semantic merge); the manager's actions leave it alone.
VARIABLES
    now,                    \* minutes since the manager was constructed
    seenKeys,               \* recentSignalKeys, in the timed model
    expiryTimers,           \* armed markSignalSeen timers: <<key, deadline>>
    markedAt,               \* per key, the time of its last markSignalSeen, or -1
    clearedInWindow,        \* per key: reset()/terminate() ran within 30 min of that mark
    marks                   \* number of markSignalSeen calls so far

dedupVars == <<now, seenKeys, expiryTimers, markedAt, clearedInWindow, marks>>

\* The pure functions (the semantic merge and its helpers) are checked on
\* inputs drawn in the initial state: fnIn is the input, fnOut the sequence of
\* results computed so far.
VARIABLES fnIn, fnOut

\* One call of clusterNewsHybrid: where it stands, how often it has called the
\* semantic oracle, and what became of the oracle's promise.
VARIABLES hybridPc, oracleCalls, oracleOutcome

hybridVars == <<hybridPc, oracleCalls, oracleOutcome>>

\* A request handler or fetch function under check: where it stands, and the
\* upstream calls it has made so far.
VARIABLES fnPc, fnEffects

\* The client's cache of latest videos (services/live-news.ts), the wall
\* clock it is read against and, for each cache key, the arguments of the call
\* whose fetch stored the entry (a history of the requests, not program state)
VARIABLES liveVideoCache, wallClock, storedFor
liveVars == <<liveVideoCache, wallClock, storedFor>>

pureVars == <<fnIn, fnOut, fnPc, fnEffects, liveVars, hybridVars>>

auxVars == <<dedupVars, pureVars>>

allVars == <<vars, auxVars>>

\* -------------------------------------------------------------- helpers
EmptyMap == [x \in {} |-> 0]
MapSet(m, k, v) == [x \in DOMAIN m \cup {k} |-> IF x = k THEN v ELSE m[x]]
MapDelete(m, k) == [x \in DOMAIN m \ {k} |-> m[x]]
MapValues(m) == {m[k] : k \in DOMAIN m}

CallIds == DOMAIN calls
Settled(c) == c.pc \in {"resolved", "fellback", "rejected"}
Micro(c) == c.pc \in {"resume", "catch", "resumeEv", "catchEv"}
\* continuations queued by a settled readiness promise: no caller code runs
\* before them
EventMicrotasks == \E i \in CallIds : calls[i].pc \in {"resumeEv", "catchEv"}
\* the microtask queue is not empty: no task (worker event, timer) runs
Microtasks == \E i \in CallIds : Micro(calls[i])

\* a call's outcome: tag is "none", "error", "clusters" or "signals"
NoResult == [tag |-> "none", val |-> NULL]
Failure(err) == [tag |-> "error", val |-> err]
NoId == 0

NewCall(kind, input) ==
    [kind |-> kind, input |-> input, pc |-> "start", id |-> NoId,
     result |-> NoResult, caught |-> NULL, ctorThrew |-> FALSE,
     afterTerminate |-> sinceTerminate]

\* mutant: a reject that overwrites the outcome of a settled call
RejectOverwrites(c, err) == [c EXCEPT !.pc = "rejected", !.result = Failure(err)]

\* promise.reject / promise.resolve: a settled promise stays as it is
Reject(c, err) ==
    IF Settled(c) THEN c ELSE [c EXCEPT !.pc = "rejected", !.result = Failure(err)]
Resolve(c, v) ==
    IF Settled(c) THEN c ELSE [c EXCEPT !.pc = "resolved", !.result = v]

\* new Date(x) of a serialized timestamp
NewDate(t) == <<"Date", t>>
\* onmessage: the deserialized clusters / signals
DeserializeResult(type, stamp) ==
    IF type = "cluster-result" THEN [tag |-> "clusters", val |-> NewDate(stamp)]
    ELSE [tag |-> "signals", val |-> NewDate(stamp)]

\* clusterNewsCore(items, getSourceTier): the clusters of these items
clusterNewsCore(items) == [tag |-> "clusters", val |-> <<"core", items>>]

runClusterFallback(items) == clusterNewsCore(items)

isRecentDuplicate(key) == key \in recentSignalKeys

\* this.fallbackSnapshot = null
NullSnapshot == [of |-> NULL, run |-> 0]

\* analyzeCorrelationsCore: every detected correlation whose key is not a
\* recent duplicate is emitted and marked seen; a new snapshot is returned
\* on every run.
analyzeCorrelationsCore(input, detected, snapshot, recent) ==
    [signals |-> {k \in detected : ~recent[k]},
     snapshot |-> [of |-> input,
                   run |-> snapshot.run + 1]]

\* mutant: the ID is derived from the size of the pending map
generateIdFromMapSize == Cardinality(DOMAIN pendingRequests) + 1

\* `req-${++this.requestIdCounter}-${Date.now()}`: two IDs with different
\* counter values are different strings whatever the time suffix, so the ID
\* is modelled by its counter part
generateId == requestIdCounter + 1

\* ----------------------------------------------------------------- Init
ManagerInit ==
    /\ worker = NULL
    /\ pendingRequests = EmptyMap
    /\ requestTimers = {}
    /\ requestIdCounter = 0
    /\ isReady = FALSE
    /\ workerUnavailableError = NULL
    /\ fallbackSnapshot = NullSnapshot
    /\ recentSignalKeys = {}
    /\ keyTimers = [k \in Keys |-> 0]
    /\ readyPromise = NULL
    /\ readyTimeout = FALSE
    /\ posted = {}
    /\ calls = <<>>
    /\ sinceTerminate = FALSE

DedupInit ==
    /\ now = 0
    /\ seenKeys = {}
    /\ expiryTimers = {}
    /\ markedAt = [k \in Keys |-> -1]
    /\ clearedInWindow = [k \in Keys |-> FALSE]
    /\ marks = 0

HybridIdle ==
    /\ hybridPc = "idle"
    /\ oracleCalls = 0
    /\ oracleOutcome = "none"

\* live-news.ts: the channel handles and optional channel ids the client asks
\* about; a string is a sequence of characters, an omitted argument the empty
\* sequence and a given one a one-element sequence
LiveHandles == {<<"@", "h">>}
LiveChannelIds == {<<>>, << <<>> >>, << <<"U", "C">> >>}

\* channelId ? `${channelHandle}:${channelId}` : channelHandle
cacheKey(channelHandle, channelId) ==
    IF Len(channelId) > 0 /\ Len(channelId[1]) > 0
    THEN channelHandle \o <<":">> \o channelId[1]
    ELSE channelHandle

CacheKeys == {cacheKey(h, c) : h \in LiveHandles, c \in LiveChannelIds}
FnIdle ==
    /\ fnPc = "idle"
    /\ fnEffects = <<>>
    /\ liveVideoCache = [k \in CacheKeys |-> <<>>]
    /\ wallClock = 0
    /\ storedFor = [k \in CacheKeys |-> <<>>]

PureIdle ==
    /\ fnIn = NULL
    /\ fnOut = <<>>
    /\ FnIdle
    /\ HybridIdle

Init == ManagerInit /\ DedupInit /\ PureIdle

\* nothing but the function under check has started
Quiet == ManagerInit /\ DedupInit /\ HybridIdle /\ FnIdle

\* ------------------------------------------------- initWorker / cleanup
\* cleanup(): clears the handshake timer, terminates the worker (its queued
\* messages are discarded) and drops the readiness promise and its callbacks
cleanup ==
    /\ readyTimeout' = FALSE
    /\ worker' = NULL
    /\ isReady' = FALSE
    /\ readyPromise' = NULL
    /\ posted' = {}

\* initWorker's guard: if (this.worker || this.workerUnavailableError) return
InitWorkerSkips == worker # NULL \/ workerUnavailableError # NULL

\* where a call stands after `if (this.isReady) return; await this.readyPromise`
AfterWait(ready, promise) ==
    IF ready THEN "resume"
    ELSE IF promise = "pending" THEN "awaitReady"
    ELSE "resume"          \* await of null continues in a microtask

\* readyReject(err): every call awaiting the readiness promise catches err
RejectReady(cs, err) ==
    [i \in DOMAIN cs |->
        IF cs[i].pc = "awaitReady"
        THEN [cs[i] EXCEPT !.pc = "catchEv", !.caught = err]
        ELSE cs[i]]

\* readyResolve(): every call awaiting the readiness promise continues
ResolveReady(cs) ==
    [i \in DOMAIN cs |->
        IF cs[i].pc = "awaitReady" THEN [cs[i] EXCEPT !.pc = "resumeEv"] ELSE cs[i]]

\* cleanup() drops a pending readiness promise without settling it: the calls
\* awaiting it keep awaiting a promise nothing refers to any more
DropReady(cs) ==
    [i \in DOMAIN cs |->
        IF cs[i].pc = "awaitReady" THEN [cs[i] EXCEPT !.pc = "awaitDropped"] ELSE cs[i]]

\* mutant: waitForReady without its check of the recorded error
WaitForReadyNeverThrows == FALSE

\* waitForReady: if (this.workerUnavailableError) throw it
WaitForReadyThrows == workerUnavailableError # NULL

\* ------------------------------------------- waitForReady, up to the await
\* The synchronous part of clusterNews / analyzeCorrelations: waitForReady
\* with initWorker.  ctorOk tells whether `new AnalysisWorker()` succeeds.
WaitForReady(kind, input, ctorOk) ==
    LET c == NewCall(kind, input) IN
    /\ Len(calls) < MaxCalls
    /\ ~EventMicrotasks
    /\ sinceTerminate' = FALSE
    /\ UNCHANGED <<pendingRequests, requestTimers, requestIdCounter>>
    /\ UNCHANGED fbVars
    /\ IF WaitForReadyThrows
       THEN \* throw this.workerUnavailableError
            /\ calls' = Append(calls, [c EXCEPT !.pc = "catch",
                                               !.caught = workerUnavailableError])
            /\ UNCHANGED <<mgrVars, posted>>
       ELSE IF InitWorkerSkips
       THEN /\ calls' = Append(calls, [c EXCEPT !.pc = AfterWait(isReady, readyPromise)])
            /\ UNCHANGED <<mgrVars, posted>>
       ELSE IF ctorOk
       THEN \* new promise, timer armed, worker constructed, handlers set
            /\ readyPromise' = "pending"
            /\ readyTimeout' = TRUE
            /\ worker' = "worker"
            /\ calls' = Append(calls, [c EXCEPT !.pc = AfterWait(isReady, "pending")])
            /\ UNCHANGED <<isReady, workerUnavailableError, posted>>
       ELSE \* the constructor throws: record the error, readyReject, cleanup
            /\ workerUnavailableError' = ConstructError
            /\ cleanup
            /\ calls' = Append(RejectReady(calls, ConstructError),
                               [c EXCEPT !.pc = AfterWait(FALSE, NULL),
                                         !.ctorThrew = TRUE])
    /\ UNCHANGED auxVars

ClusterNews(items, ctorOk) == WaitForReady("cluster", items, ctorOk)

AnalyzeCorrelations(input, ctorOk) == WaitForReady("correlation", input, ctorOk)

\* --------------------------------------- after waitForReady has returned
\* new Promise(...): generateId, setTimeout, pendingRequests.set,
\* this.worker!.postMessage.  With no worker postMessage throws inside the
\* executor: the promise is rejected, the entry and its timer stay.
Post(c, id) ==
    IF worker = NULL
    THEN [c EXCEPT !.pc = "rejected", !.id = id, !.result = Failure(NullWorkerError)]
    ELSE [c EXCEPT !.pc = "pending", !.id = id]

Dispatch(i) ==
    LET id == generateId IN
    /\ calls[i].pc \in {"resume", "resumeEv"}
    /\ requestIdCounter' = requestIdCounter + 1
    /\ requestTimers' = requestTimers \cup {i}
    /\ pendingRequests' = MapSet(pendingRequests, id, i)
    /\ calls' = [calls EXCEPT ![i] = Post(calls[i], id)]
    /\ posted' = IF worker = NULL THEN posted
                 ELSE posted \cup {[type |-> calls[i].kind, id |-> id]}
    /\ UNCHANGED <<mgrVars, sinceTerminate>>
    /\ UNCHANGED fbVars
    /\ UNCHANGED auxVars

\* ------------------------------------------- after waitForReady has thrown
\* catch: if (!this.workerUnavailableError) this.workerUnavailableError = error
CatchRecords(c) ==
    IF workerUnavailableError = NULL THEN c.caught ELSE workerUnavailableError

\* mutant: the catch block rethrows instead of running the fallback
ClusterCatchRethrows(c) == Reject(c, c.caught)

\* catch: return this.runClusterFallback(items)
ClusterCatch(c) ==
    [c EXCEPT !.pc = "fellback", !.result = runClusterFallback(c.input)]

ClusterFallback(i) ==
    /\ calls[i].pc \in {"catch", "catchEv"}
    /\ calls[i].kind = "cluster"
    /\ workerUnavailableError' = CatchRecords(calls[i])
    /\ calls' = [calls EXCEPT ![i] = ClusterCatch(@)]
    /\ UNCHANGED <<worker, isReady, readyPromise, readyTimeout, sinceTerminate>>
    /\ UNCHANGED <<reqVars, fbVars>>
    /\ UNCHANGED auxVars

\* mutant: the snapshot is stored only by a run that emitted a signal
CorrelationFallbackKeepsSnapshot(i) ==
    /\ calls[i].pc \in {"catch", "catchEv"}
    /\ calls[i].kind = "correlation"
    /\ workerUnavailableError' = CatchRecords(calls[i])
    /\ \E detected \in SUBSET Keys :
         LET r == analyzeCorrelationsCore(calls[i].input, detected, fallbackSnapshot,
                                          [k \in Keys |-> isRecentDuplicate(k)]) IN
         /\ recentSignalKeys' = recentSignalKeys \cup r.signals
         /\ keyTimers' = [k \in Keys |->
                            keyTimers[k] + (IF k \in r.signals THEN 1 ELSE 0)]
         /\ fallbackSnapshot' = IF r.signals = {} THEN fallbackSnapshot ELSE r.snapshot
         /\ calls' = [calls EXCEPT ![i] = [@ EXCEPT !.pc = "fellback",
                                                    !.result = [tag |-> "signals", val |-> r.signals]]]
    /\ UNCHANGED <<worker, isReady, readyPromise, readyTimeout, sinceTerminate>>
    /\ UNCHANGED reqVars
    /\ UNCHANGED auxVars

\* runCorrelationFallback: markSignalSeen adds the key and arms a 30-minute
\* timer that deletes it; the snapshot is replaced
CorrelationFallback(i) ==
    /\ calls[i].pc \in {"catch", "catchEv"}
    /\ calls[i].kind = "correlation"
    /\ workerUnavailableError' = CatchRecords(calls[i])
    /\ \E detected \in SUBSET Keys :
         LET r == analyzeCorrelationsCore(calls[i].input, detected, fallbackSnapshot,
                                          [k \in Keys |-> isRecentDuplicate(k)]) IN
         /\ recentSignalKeys' = recentSignalKeys \cup r.signals
         /\ keyTimers' = [k \in Keys |->
                            keyTimers[k] + (IF k \in r.signals THEN 1 ELSE 0)]
         /\ fallbackSnapshot' = r.snapshot
         /\ calls' = [calls EXCEPT ![i] = [@ EXCEPT !.pc = "fellback",
                                                    !.result = [tag |-> "signals", val |-> r.signals]]]
    /\ UNCHANGED <<worker, isReady, readyPromise, readyTimeout, sinceTerminate>>
    /\ UNCHANGED reqVars
    /\ UNCHANGED auxVars

\* ---------------------------------------------------------- worker events
\* mutant: the ready message leaves the handshake timer armed
OnMessageReadyKeepsTimer ==
    /\ worker # NULL
    /\ ~isReady
    /\ ~Microtasks
    /\ isReady' = TRUE
    /\ readyPromise' = IF readyPromise = "pending" THEN "resolved" ELSE readyPromise
    /\ calls' = ResolveReady(calls)
    /\ UNCHANGED <<worker, workerUnavailableError, sinceTerminate, readyTimeout>>
    /\ UNCHANGED <<reqVars, fbVars>>
    /\ UNCHANGED auxVars

\* onmessage, data.type === 'ready'
OnMessageReady ==
    /\ worker # NULL
    /\ ~isReady
    /\ ~Microtasks
    /\ isReady' = TRUE
    /\ readyTimeout' = FALSE
    /\ readyPromise' = IF readyPromise = "pending" THEN "resolved" ELSE readyPromise
    /\ calls' = ResolveReady(calls)
    /\ UNCHANGED <<worker, workerUnavailableError, sinceTerminate>>
    /\ UNCHANGED <<reqVars, fbVars>>
    /\ UNCHANGED auxVars

\* mutant: a response settles the oldest pending request
MatchOldestPending(id) ==
    IF DOMAIN pendingRequests = {} THEN {}
    ELSE {CHOOSE k \in DOMAIN pendingRequests :
            \A x \in DOMAIN pendingRequests : k <= x}

\* which pending entry a response with this id settles
MatchPending(id) == IF id \in DOMAIN pendingRequests THEN {id} ELSE {}

\* onmessage, 'id' in data: the worker answers a posted request
OnMessageResult(m, stamp) ==
    LET data == [type |-> IF m.type = "cluster" THEN "cluster-result"
                          ELSE "correlation-result",
                 id |-> m.id]
        hit == MatchPending(data.id)
    IN
    /\ worker # NULL
    /\ m \in posted
    /\ ~Microtasks
    /\ posted' = posted \ {m}
    /\ IF hit = {}
       THEN UNCHANGED <<pendingRequests, requestTimers, calls>>
       ELSE LET k == CHOOSE x \in hit : TRUE
                i == pendingRequests[k] IN
            /\ requestTimers' = requestTimers \ {i}
            /\ pendingRequests' = MapDelete(pendingRequests, k)
            /\ calls' = [calls EXCEPT
                           ![i] = Resolve(@, DeserializeResult(data.type, stamp))]
    /\ UNCHANGED <<mgrVars, requestIdCounter, sinceTerminate>>
    /\ UNCHANGED fbVars
    /\ UNCHANGED auxVars

\* reject every pending request with err and clear its timer
RejectAll(cs, err) ==
    [i \in DOMAIN cs |->
        IF i \in MapValues(pendingRequests) THEN Reject(cs[i], err) ELSE cs[i]]

\* onerror after the handshake: the manager's readiness state stays
OnErrorReadyState == <<worker, isReady, workerUnavailableError, readyPromise,
                       readyTimeout, posted>>

\* mutant: onerror treats every worker error as an initialization failure
OnErrorAlwaysFatal ==
    /\ worker # NULL
    /\ ~Microtasks
    /\ workerUnavailableError' = InitError
    /\ calls' = RejectReady(calls, InitError)
    /\ cleanup
    /\ UNCHANGED <<pendingRequests, requestTimers, requestIdCounter, sinceTerminate>>
    /\ UNCHANGED fbVars
    /\ UNCHANGED auxVars

\* worker.onerror
OnError ==
    /\ worker # NULL
    /\ ~Microtasks
    /\ IF ~isReady
       THEN /\ workerUnavailableError' = InitError
            /\ calls' = RejectReady(calls, InitError)
            /\ cleanup
            /\ UNCHANGED <<pendingRequests, requestTimers>>
       ELSE /\ calls' = RejectAll(calls, WorkerError)
            /\ requestTimers' = requestTimers \ MapValues(pendingRequests)
            /\ pendingRequests' = EmptyMap
            /\ UNCHANGED OnErrorReadyState
    /\ UNCHANGED <<requestIdCounter, sinceTerminate>>
    /\ UNCHANGED fbVars
    /\ UNCHANGED auxVars

\* ------------------------------------------------------------------ timers
\* the handshake timer set in initWorker
ReadyTimeoutFires ==
    /\ readyTimeout
    /\ ~Microtasks
    /\ IF ~isReady
       THEN /\ workerUnavailableError' = ReadyTimeoutError
            /\ calls' = RejectReady(calls, ReadyTimeoutError)
            /\ cleanup
       ELSE /\ readyTimeout' = FALSE
            /\ UNCHANGED <<worker, isReady, workerUnavailableError, readyPromise,
                           posted, calls>>
    /\ UNCHANGED <<pendingRequests, requestTimers, requestIdCounter, sinceTerminate>>
    /\ UNCHANGED fbVars
    /\ UNCHANGED auxVars

TimeoutError(kind) ==
    IF kind = "cluster" THEN ClusterTimeoutError ELSE CorrelationTimeoutError

\* mutant: a request that times out is served by the fallback
TimeoutFallsBack(c) ==
    IF Settled(c) THEN c
    ELSE [c EXCEPT !.pc = "fellback", !.result = clusterNewsCore(c.input)]

\* the per-request timer: pendingRequests.delete(id); reject(...)
TimeoutSettles(c) == Reject(c, TimeoutError(c.kind))

RequestTimeoutFires(i) ==
    /\ i \in requestTimers
    /\ ~Microtasks
    /\ requestTimers' = requestTimers \ {i}
    /\ pendingRequests' = MapDelete(pendingRequests, calls[i].id)
    /\ calls' = [calls EXCEPT ![i] = TimeoutSettles(@)]
    /\ UNCHANGED <<mgrVars, requestIdCounter, posted, sinceTerminate>>
    /\ UNCHANGED fbVars
    /\ UNCHANGED auxVars

\* the timer set by markSignalSeen: this.recentSignalKeys.delete(key)
SignalKeyExpires(k) ==
    /\ keyTimers[k] > 0
    /\ ~Microtasks
    /\ keyTimers' = [keyTimers EXCEPT ![k] = @ - 1]
    /\ recentSignalKeys' = recentSignalKeys \ {k}
    /\ UNCHANGED <<mgrVars, reqVars, fallbackSnapshot, calls, sinceTerminate>>
    /\ UNCHANGED auxVars

\* ------------------------------------------------------ reset / terminate
\* mutant: reset() forgets to clear the dedup keys
ResetKeepsDedupKeys ==
    /\ ~EventMicrotasks
    /\ calls' = RejectAll(calls, ResetError)
    /\ requestTimers' = requestTimers \ MapValues(pendingRequests)
    /\ pendingRequests' = EmptyMap
    /\ fallbackSnapshot' = NullSnapshot
    /\ UNCHANGED <<mgrVars, requestIdCounter, posted, recentSignalKeys, keyTimers,
                   sinceTerminate>>
    /\ UNCHANGED auxVars

\* reset()
Reset ==
    /\ ~EventMicrotasks
    /\ calls' = RejectAll(calls, ResetError)
    /\ requestTimers' = requestTimers \ MapValues(pendingRequests)
    /\ pendingRequests' = EmptyMap
    /\ posted' = posted     \* the worker sends no reply to its 'reset' message
    /\ fallbackSnapshot' = NullSnapshot
    /\ recentSignalKeys' = {}
    /\ UNCHANGED <<mgrVars, requestIdCounter, keyTimers, sinceTerminate>>
    /\ UNCHANGED auxVars

\* terminate()
Terminate ==
    /\ ~EventMicrotasks
    /\ calls' = DropReady(RejectAll(calls, TerminatedError))
    /\ requestTimers' = requestTimers \ MapValues(pendingRequests)
    /\ pendingRequests' = EmptyMap
    /\ cleanup
    /\ workerUnavailableError' = NULL
    /\ fallbackSnapshot' = NullSnapshot
    /\ recentSignalKeys' = {}
    /\ sinceTerminate' = TRUE
    /\ UNCHANGED <<requestIdCounter, keyTimers>>
    /\ UNCHANGED auxVars

Next ==
    \/ \E items \in Items, ctorOk \in BOOLEAN : ClusterNews(items, ctorOk)
    \/ \E input \in Items, ctorOk \in BOOLEAN : AnalyzeCorrelations(input, ctorOk)
    \/ \E i \in CallIds : Dispatch(i)
    \/ \E i \in CallIds : ClusterFallback(i)
    \/ \E i \in CallIds : CorrelationFallback(i)
    \/ OnMessageReady
    \/ \E m \in posted, stamp \in Stamps : OnMessageResult(m, stamp)
    \/ OnError
    \/ ReadyTimeoutFires
    \/ \E i \in CallIds : RequestTimeoutFires(i)
    \/ \E k \in Keys : SignalKeyExpires(k)
    \/ Reset
    \/ Terminate

Spec == Init /\ [][Next]_allVars

TypeOK ==
    /\ worker \in {NULL, "worker"}
    /\ isReady \in BOOLEAN
    /\ readyTimeout \in BOOLEAN
    /\ readyPromise \in {NULL, "pending", "resolved"}
    /\ requestTimers \subseteq CallIds
    /\ MapValues(pendingRequests) \subseteq CallIds

\* ======================================================== the claims

Unavailable == workerUnavailableError # NULL

\* the manager could not offload this call: waitForReady threw (the error was
\* already recorded, or the readiness promise was rejected by a worker error
\* before ready or by the handshake timeout), or the constructor threw
CannotOffload(c) == c.caught # NULL \/ c.ctorThrew

\* C1: a call the manager cannot offload (unavailability recorded, worker
\* construction throws, worker error before ready, handshake timeout while
\* waiting) completes with the in-process fallback result; it is never
\* rejected and never dispatched to a missing worker.
C1_FallbackWhenNoOffload ==
    \A i \in CallIds :
        CannotOffload(calls[i]) =>
            /\ calls[i].pc # "rejected"
            /\ calls[i].id = NoId
            /\ calls[i].pc \notin {"pending", "resolved"}

\* C2: while an unavailability error is recorded and terminate() is not
\* called, no step creates a worker or arms the handshake timer, every call
\* that starts goes to the catch path, and a call on that path is settled by
\* the in-process fallback, never dispatched and never rejected.
C2_UnavailableServesFallback ==
    /\ [](\A i \in CallIds :
            (calls[i].caught # NULL /\ ~calls[i].ctorThrew) =>
                /\ calls[i].pc \in {"catch", "catchEv", "fellback"}
                /\ calls[i].id = NoId)
    /\ [][(Unavailable /\ Unavailable') =>
            /\ (worker = NULL => worker' = NULL)
            /\ (readyTimeout' => readyTimeout)
            /\ (Len(calls') > Len(calls) =>
                  /\ calls'[Len(calls')].pc = "catch"
                  /\ calls'[Len(calls')].caught = workerUnavailableError)]_vars

\* a call made while Unavailable was served by the fallback
C2_Witness ==
    \E i \in CallIds :
        /\ i > 1
        /\ calls[i].pc = "fellback"
        /\ calls[i].caught # NULL
        /\ Unavailable
        /\ worker = NULL

WaitingOnReadiness(c) == c.pc \in {"awaitReady", "awaitDropped"}

\* C3: when the handshake timer fires before a ready message, the manager
\* becomes Unavailable (error recorded, worker torn down) and every call that
\* is waiting on readiness at that moment observes the timeout error.
C3_TimeoutReachesEveryWaiter ==
    [][ReadyTimeoutFires =>
         /\ workerUnavailableError' = ReadyTimeoutError
         /\ worker' = NULL
         /\ ~isReady'
         /\ \A i \in CallIds :
               WaitingOnReadiness(calls[i]) => calls'[i].caught = ReadyTimeoutError]_vars

\* C4 as stated: the first call on a manager whose worker never becomes ready
\* is rejected when the handshake timer fires.
C4_Original ==
    \A i \in CallIds :
        (i = 1 /\ calls[i].kind = "cluster" /\ calls[i].caught = ReadyTimeoutError
           /\ Settled(calls[i]))
        => calls[i].pc = "rejected"

\* C4, amended: the first clusterNews call on a manager whose worker never
\* becomes ready is settled when the handshake timer fires: its continuation
\* is queued by that timer task and it resolves with the in-process fallback
\* result; it is not rejected and does not stay pending.
C4_TimeoutSettlesByFallback ==
    /\ [](\A i \in CallIds :
            (i = 1 /\ calls[i].kind = "cluster" /\ calls[i].caught = ReadyTimeoutError)
            => \/ calls[i].pc = "catchEv"
               \/ /\ calls[i].pc = "fellback"
                  /\ calls[i].result = clusterNewsCore(calls[i].input))
    /\ [][(ReadyTimeoutFires /\ Len(calls) >= 1) =>
            (calls[1].pc = "awaitReady" => calls'[1].caught = ReadyTimeoutError)]_vars

C4_Witness ==
    /\ Len(calls) >= 1
    /\ calls[1].kind = "cluster"
    /\ calls[1].caught = ReadyTimeoutError
    /\ calls[1].pc = "fellback"

PendingCalls == MapValues(pendingRequests)

\* C5: a worker error after Ready rejects every pending request with a worker
\* error and empties the pending map; the worker, the ready flag, the
\* handshake timer and the unavailability error stay as they are, so later
\* calls are still dispatched.
C5_ErrorAfterReadyKeepsState ==
    [][(OnError /\ isReady) =>
         /\ pendingRequests' = EmptyMap
         /\ \A i \in PendingCalls :
               /\ calls'[i].pc = "rejected"
               /\ calls[i].pc = "pending" => calls'[i].result = Failure(WorkerError)
         /\ \A i \in CallIds \ PendingCalls : calls'[i] = calls[i]
         /\ isReady' /\ worker' = worker /\ worker' # NULL
         /\ workerUnavailableError' = workerUnavailableError
         /\ readyTimeout' = readyTimeout
         /\ (~Unavailable => AfterWait(isReady', readyPromise') = "resume")]_vars

\* a request was rejected by a worker error and a later call was dispatched
C5_Witness ==
    \E i, j \in CallIds :
        /\ i < j
        /\ calls[i].result = Failure(WorkerError)
        /\ calls[j].pc = "pending"
        /\ isReady
        /\ ~Unavailable

\* C6: when a request's own timeout fires, exactly that request leaves the
\* pending map and its call is rejected (a call still pending, with the
\* timeout error of its kind); the other calls, the worker and the readiness
\* state stay as they are and no fallback runs.
C6_TimeoutRejectsOnlyItsRequest ==
    [][\A i \in CallIds :
         RequestTimeoutFires(i) =>
            /\ DOMAIN pendingRequests' = DOMAIN pendingRequests \ {calls[i].id}
            /\ \A k \in DOMAIN pendingRequests' :
                  pendingRequests'[k] = pendingRequests[k]
            /\ calls'[i].pc = "rejected"
            /\ calls[i].pc = "pending" =>
                  calls'[i].result = Failure(TimeoutError(calls[i].kind))
            /\ \A j \in CallIds \ {i} : calls'[j] = calls[j]
            /\ requestTimers' = requestTimers \ {i}
            /\ UNCHANGED mgrVars
            /\ UNCHANGED fbVars]_vars

\* one request timed out while another one stayed pending
C6_Witness ==
    \E i, j \in CallIds :
        /\ calls[i].result = Failure(TimeoutError(calls[i].kind))
        /\ calls[j].pc = "pending"
        /\ calls[j].id \in DOMAIN pendingRequests

\* C7: reset() rejects every pending request and empties the pending map,
\* sets the fallback snapshot to null and empties the dedup-key set, so that
\* isDuplicate is false for every key; the worker, the ready flag, the
\* handshake timer and the unavailability error stay as they are.
C7_ResetClearsRequestsAndFallbackState ==
    [][Reset =>
         /\ pendingRequests' = EmptyMap
         /\ requestTimers' \cap PendingCalls = {}
         /\ \A i \in PendingCalls :
               /\ calls'[i].pc = "rejected"
               /\ calls[i].pc = "pending" => calls'[i].result = Failure(ResetError)
         /\ \A i \in CallIds \ PendingCalls : calls'[i] = calls[i]
         /\ fallbackSnapshot' = NullSnapshot
         /\ \A k \in Keys : ~isRecentDuplicate(k)'
         /\ worker' = worker
         /\ isReady' = isReady
         /\ readyTimeout' = readyTimeout
         /\ workerUnavailableError' = workerUnavailableError]_vars

\* reset() rejected a pending request and left the Ready worker in place
C7_Witness ==
    \E i \in CallIds :
        /\ calls[i].result = Failure(ResetError)
        /\ worker # NULL
        /\ isReady
        /\ pendingRequests = EmptyMap

\* the next call would get past waitForReady's check and initWorker's guard
NextCallInitializes == ~WaitForReadyThrows /\ ~InitWorkerSkips

\* C8: terminate(), in any state, rejects every pending request, tears down
\* the worker, cancels the handshake timer and clears the unavailability
\* error, the fallback snapshot and the dedup keys; from then until the next
\* call the manager is such that this call starts a fresh initialization.
C8_TerminateThenReinitialize ==
    /\ [][Terminate =>
            /\ pendingRequests' = EmptyMap
            /\ \A i \in PendingCalls : calls'[i].pc = "rejected"
            /\ worker' = NULL
            /\ ~isReady'
            /\ ~readyTimeout'
            /\ workerUnavailableError' = NULL
            /\ fallbackSnapshot' = NullSnapshot
            /\ recentSignalKeys' = {}]_vars
    /\ [](sinceTerminate => NextCallInitializes)

\* C9: a response settles the call whose request ID it carries, with its own
\* payload, whatever the order of arrival; the other calls are untouched, and
\* a response whose ID is not in the pending map changes nothing.
C9_ResponsesMatchedById ==
    [][\A m \in posted, stamp \in Stamps :
         OnMessageResult(m, stamp) =>
            /\ \A i \in CallIds :
                  IF calls[i].id = m.id /\ calls[i].pc = "pending"
                  THEN /\ calls'[i].pc = "resolved"
                       /\ calls'[i].result.val = NewDate(stamp)
                       /\ calls'[i].result.tag =
                             (IF calls[i].kind = "cluster" THEN "clusters" ELSE "signals")
                  ELSE calls'[i] = calls[i]
            /\ m.id \notin DOMAIN pendingRequests =>
                  UNCHANGED <<pendingRequests, requestTimers, calls>>
            /\ UNCHANGED mgrVars
            /\ UNCHANGED fbVars]_vars

\* the second of two pending requests was answered first
C9_Witness ==
    \E i, j \in CallIds :
        /\ i < j
        /\ calls[i].pc = "pending"
        /\ calls[j].pc = "resolved"

\* C10: the request IDs a manager generates are pairwise distinct over its
\* whole lifetime, across reset() and terminate().
C10_RequestIdsDistinct ==
    \A i, j \in CallIds :
        (i # j /\ calls[i].id # NoId /\ calls[j].id # NoId) => calls[i].id # calls[j].id

\* an ID was generated before and another one after a terminate()
C10_Witness ==
    \E i, j \in CallIds :
        /\ i < j
        /\ calls[i].id # NoId
        /\ calls[j].id # NoId
        /\ calls[i].result = Failure(TerminatedError)

\* ================================================= the timed dedup window
\* markSignalSeen / isRecentDuplicate / reset / terminate with a clock in
\* minutes.  A timer that is due fires before time moves on.
MaxTime == 40       \* the clock runs from 0 to MaxTime minutes
MaxMarks == 2       \* calls of markSignalSeen per run

\* setTimeout(..., 30 * 60 * 1000), in minutes
SignalTtl == 30

TimedIsRecentDuplicate(key) == key \in seenKeys

\* a reset()/terminate() at this moment falls inside the window of the last
\* mark of k
InsideWindow(k) == markedAt[k] >= 0 /\ now < markedAt[k] + SignalTtl

\* markSignalSeen(key), called by the analyzer for a signal it emits, that is
\* for a key that is not a recent duplicate
markSignalSeen(key) ==
    /\ marks < MaxMarks
    /\ ~TimedIsRecentDuplicate(key)
    /\ seenKeys' = seenKeys \cup {key}
    /\ expiryTimers' = expiryTimers \cup {<<key, now + SignalTtl>>}
    /\ markedAt' = [markedAt EXCEPT ![key] = now]
    /\ clearedInWindow' = [clearedInWindow EXCEPT ![key] = FALSE]
    /\ marks' = marks + 1
    /\ UNCHANGED now
    /\ UNCHANGED <<vars, pureVars>>

\* the timer callback: this.recentSignalKeys.delete(key)
ExpiryTimerFires(t) ==
    /\ t \in expiryTimers
    /\ t[2] <= now
    /\ seenKeys' = seenKeys \ {t[1]}
    /\ expiryTimers' = expiryTimers \ {t}
    /\ UNCHANGED <<now, markedAt, clearedInWindow, marks>>
    /\ UNCHANGED <<vars, pureVars>>

\* this.recentSignalKeys.clear() of reset() and terminate(): the timers that
\* markSignalSeen armed are not cancelled
ClearSignalKeys ==
    /\ seenKeys' = {}
    /\ clearedInWindow' = [k \in Keys |-> clearedInWindow[k] \/ InsideWindow(k)]
    /\ UNCHANGED <<now, expiryTimers, markedAt, marks>>
    /\ UNCHANGED <<vars, pureVars>>

TimedReset == ClearSignalKeys

TimedTerminate == ClearSignalKeys

AdvanceTime ==
    /\ now < MaxTime
    /\ \A t \in expiryTimers : t[2] > now
    /\ now' = now + 1
    /\ UNCHANGED <<seenKeys, expiryTimers, markedAt, clearedInWindow, marks>>
    /\ UNCHANGED <<vars, pureVars>>

DedupNext ==
    \/ \E k \in Keys : markSignalSeen(k)
    \/ \E t \in expiryTimers : ExpiryTimerFires(t)
    \/ TimedReset
    \/ TimedTerminate
    \/ AdvanceTime

SpecDedup == Init /\ [][DedupNext]_allVars

\* C11: after markSeen(K) at time t, with no reset()/terminate() inside the
\* window, isDuplicate(K) is true at every time in [t, t+30 min) and false
\* after t+30 min until K is marked again, whatever happened before t.
C11_DedupWindow ==
    \A k \in Keys :
        (markedAt[k] >= 0 /\ ~clearedInWindow[k]) =>
            /\ now < markedAt[k] + SignalTtl => TimedIsRecentDuplicate(k)
            /\ now > markedAt[k] + SignalTtl => ~TimedIsRecentDuplicate(k)

\* ====================================================== the semantic merge
\* mergeSemanticallySimilarClusters, selectMergedThreat and selectMergedGeo
\* (src/unnamed/part_001).  An optional value (threat, lat, lon) is the empty
\* sequence when it is null or undefined and a one-element sequence otherwise.

None == <<>>
Some(v) == <<v>>
IsSome(x) == Len(x) > 0

\* Array.prototype.sort with a comparator (part_001 lines 94-99, 120-122, 158,
\* 172-174) is stable: s ordered by Less, equal elements in their order in s
StableSort(s, Less(_, _)) ==
    LET n == Len(s)
        rank(i) == Cardinality({j \in 1..n :
                      \/ Less(s[j], s[i])
                      \/ (~Less(s[i], s[j]) /\ j < i)})
    IN [k \in 1..n |-> s[CHOOSE i \in 1..n : rank(i) = k - 1]]

RECURSIVE Concat(_)
\* the concatenation of a sequence of sequences
Concat(ss) == IF ss = <<>> THEN <<>> ELSE Head(ss) \o Concat(Tail(ss))

\* Array.prototype.filter (part_001 lines 74-76, 169)
Filter(s, Keep(_)) == SelectSeq(s, Keep)
Range(s) == {s[i] : i \in DOMAIN s}
Take(s, n) == SubSeq(s, 1, IF Len(s) < n THEN Len(s) ELSE n)
SeqMin(s) == CHOOSE x \in Range(s) : \A y \in Range(s) : x <= y
SeqMax(s) == CHOOSE x \in Range(s) : \A y \in Range(s) : x >= y

\* the tier table behind getSourceTier; a source it does not list gets the
\* default tier
SourceTierTable == [wire |-> 1, paper |-> 2, portal |-> 3]
DefaultTier == 4
getSourceTier(source) ==
    IF source \in DOMAIN SourceTierTable THEN SourceTierTable[source] ELSE DefaultTier

THREAT_PRIORITY == [critical |-> 5, high |-> 4, medium |-> 3, low |-> 2, info |-> 1]

\* THREAT_PRIORITY[level] || 1
ThreatRank(level) ==
    IF level \in DOMAIN THREAT_PRIORITY THEN THREAT_PRIORITY[level] ELSE 1

\* variant: the first threat found, whatever its level
FirstThreat(primary, others) ==
    LET candidates == Concat([i \in 1..(Len(others) + 1) |->
                                (<<primary>> \o others)[i].threat])
    IN IF Len(candidates) > 0 THEN Some(candidates[1]) ELSE None

\* selectMergedThreat(primary, others): the threats of [primary, ...others],
\* sorted by descending priority, first one; undefined when there is none
selectMergedThreat(primary, others) ==
    LET candidates == Concat([i \in 1..(Len(others) + 1) |->
                                (<<primary>> \o others)[i].threat])
        ByPriority(a, b) == ThreatRank(a.level) > ThreatRank(b.level)
    IN IF Len(candidates) > 0
       THEN Some(StableSort(candidates, ByPriority)[1])
       ELSE None

HasGeo(x) == IsSome(x.lat) /\ IsSome(x.lon)

\* variant: lat and lon each taken from the first place that has one
LatLonIndependently(primary, others, items) ==
    LET places == <<primary>> \o others \o items
        lats == Concat([i \in DOMAIN places |-> places[i].lat])
        lons == Concat([i \in DOMAIN places |-> places[i].lon])
    IN IF Len(lats) > 0 /\ Len(lons) > 0
       THEN Some([lat |-> lats[1], lon |-> lons[1]])
       ELSE None

\* selectMergedGeo(primary, others, items): null is None
selectMergedGeo(primary, others, items) ==
    LET otherGeo == Filter(others, HasGeo)
        withGeo == Filter(items, HasGeo)
    IN IF HasGeo(primary) THEN Some([lat |-> primary.lat[1], lon |-> primary.lon[1]])
       ELSE IF Len(otherGeo) > 0
       THEN Some([lat |-> otherGeo[1].lat[1], lon |-> otherGeo[1].lon[1]])
       ELSE IF Len(withGeo) > 0
       THEN Some([lat |-> withGeo[1].lat[1], lon |-> withGeo[1].lon[1]])
       ELSE None

\* sortedByTier: tier of the primary source ascending, then lastUpdated
\* descending
ByTierThenRecency(a, b) ==
    \/ getSourceTier(a.primarySource) < getSourceTier(b.primarySource)
    \/ /\ getSourceTier(a.primarySource) = getSourceTier(b.primarySource)
       /\ a.lastUpdated > b.lastUpdated

ByLastUpdated(a, b) == a.lastUpdated > b.lastUpdated

\* variant: the group ordered by recency alone
SortByRecency(groupClusters) == StableSort(groupClusters, ByLastUpdated)

SortByTier(groupClusters) == StableSort(groupClusters, ByTierThenRecency)

\* new Map(primary.topSources.map(s => [s.url, s])) followed by set() of the
\* absent urls: a Map keeps the position of the first entry of a key; the Map
\* constructor keeps the value of the last one, the loop over the others the
\* value already there
RECURSIVE MapOfSources(_, _, _)
MapOfSources(srcs, acc, overwrite) ==
    IF srcs = <<>> THEN acc
    ELSE LET src == Head(srcs)
             at == {i \in DOMAIN acc : acc[i].url = src.url}
         IN MapOfSources(Tail(srcs),
                IF at = {} THEN Append(acc, src)
                ELSE IF overwrite
                THEN [i \in DOMAIN acc |-> IF i \in at THEN src ELSE acc[i]]
                ELSE acc,
                overwrite)

TopSourcesCap == 5

\* Array.from(topSourcesSet.values()).sort((a, b) => a.tier - b.tier).slice(0, 5)
ByTier(a, b) == a.tier < b.tier

\* variant: the sorted sources without slice(0, 5)
UncappedTopSources(sources) == StableSort(sources, ByTier)

CapTopSources(sources) == Take(StableSort(sources, ByTier), TopSourcesCap)

MergeTopSources(primary, others) ==
    CapTopSources(
        MapOfSources(Concat([i \in DOMAIN others |-> others[i].topSources]),
                     MapOfSources(primary.topSources, <<>>, TRUE),
                     FALSE))

\* allItems = [...primary.allItems], then push(...other.allItems)
MergeItems(primary, others) ==
    primary.allItems \o Concat([i \in DOMAIN others |-> others[i].allItems])

\* the mergedCluster object literal; lat and lon are spread from mergedGeo
MergeGroup(groupClusters) ==
    LET sortedByTier == SortByTier(groupClusters)
        primary == sortedByTier[1]
        others == Tail(sortedByTier)
        allItems == MergeItems(primary, others)
        allDates == [i \in DOMAIN allItems |-> allItems[i].pubDate]
        mergedGeo == selectMergedGeo(primary, others, allItems)
    IN [id |-> primary.id,
        primaryTitle |-> primary.primaryTitle,
        primaryLink |-> primary.primaryLink,
        primarySource |-> primary.primarySource,
        sourceCount |-> Len(allItems),
        topSources |-> MergeTopSources(primary, others),
        allItems |-> allItems,
        firstSeen |-> SeqMin(allDates),
        lastUpdated |-> SeqMax(allDates),
        isAlert |-> \E i \in DOMAIN allItems : allItems[i].isAlert,
        monitorColor |-> primary.monitorColor,
        velocity |-> primary.velocity,
        threat |-> selectMergedThreat(primary, others),
        lat |-> IF IsSome(mergedGeo) THEN Some(mergedGeo[1].lat) ELSE None,
        lon |-> IF IsSome(mergedGeo) THEN Some(mergedGeo[1].lon) ELSE None]

\* group.map(id => clusterMap.get(id)).filter(c => c !== undefined &&
\* !usedIds.has(c.id)): usedIds is updated after the filter, so an id that the
\* group repeats is kept every time
GroupClusters(clusters, group, usedIds) ==
    LET Known(id) == (\E i \in DOMAIN clusters : clusters[i].id = id) /\ id \notin usedIds
        ids == Filter(group, Known)
    IN [k \in DOMAIN ids |->
          clusters[CHOOSE i \in DOMAIN clusters :
                     /\ clusters[i].id = ids[k]
                     /\ \A j \in DOMAIN clusters : clusters[j].id = ids[k] => j <= i]]

RECURSIVE MergeLoop(_, _, _, _)
\* for (const group of semanticGroups): [merged, usedIds] after the loop
MergeLoop(clusters, groups, merged, usedIds) ==
    IF groups = <<>> THEN [merged |-> merged, usedIds |-> usedIds]
    ELSE LET groupClusters == GroupClusters(clusters, Head(groups), usedIds)
             used == usedIds \cup {groupClusters[i].id : i \in DOMAIN groupClusters}
         IN IF Len(groupClusters) = 0
            THEN MergeLoop(clusters, Tail(groups), merged, usedIds)
            ELSE IF Len(groupClusters) = 1
            THEN MergeLoop(clusters, Tail(groups), Append(merged, groupClusters[1]), used)
            ELSE MergeLoop(clusters, Tail(groups),
                           Append(merged, MergeGroup(groupClusters)), used)

mergeSemanticallySimilarClusters(clusters, semanticGroups) ==
    LET loop == MergeLoop(clusters, semanticGroups, <<>>, {})
        NotUsed(c) == c.id \notin loop.usedIds
    IN StableSort(loop.merged \o Filter(clusters, NotUsed), ByLastUpdated)

\* ---------------------------------------------- inputs of the semantic merge
\* Clusters as clusterNewsCore hands them over: distinct ids, sourceCount the
\* number of items, lastUpdated the newest and firstSeen the oldest pubDate.

MaxClusters == 3
ClusterIds == <<"A", "B", "C", "D">>
KnownIds(n) == {ClusterIds[i] : i \in 1..n}
\* a primary source and a lastUpdated time: the same tier at two times, and a
\* source the tier table does not list
Profiles == {<<"wire", 10>>, <<"wire", 20>>, <<"blog", 20>>}

NewsItem(id, n, t, geo) ==
    [id |-> <<id, n>>, pubDate |-> t, isAlert |-> id = "B", lat |-> geo.lat, lon |-> geo.lon]

NoGeo == [lat |-> None, lon |-> None]

\* cluster A carries two items, every other cluster one; geo is the lat and
\* lon of the newest item
ItemsOfCluster(id, t, geo) ==
    IF id = "A" THEN <<NewsItem(id, 1, t, geo), NewsItem(id, 2, t - 1, NoGeo)>>
    ELSE <<NewsItem(id, 1, t, geo)>>

SourceEntry(source) == [url |-> source, tier |-> getSourceTier(source)]

Cluster(id, source, t, topSources, threat, geo, itemGeo) ==
    LET items == ItemsOfCluster(id, t, itemGeo) IN
    [id |-> id,
     primaryTitle |-> <<"title", id>>,
     primaryLink |-> <<"link", id>>,
     primarySource |-> source,
     sourceCount |-> Len(items),
     topSources |-> topSources,
     allItems |-> items,
     firstSeen |-> SeqMin([i \in DOMAIN items |-> items[i].pubDate]),
     lastUpdated |-> t,
     isAlert |-> id = "B",
     monitorColor |-> <<"color", id>>,
     velocity |-> <<"velocity", id>>,
     threat |-> threat,
     lat |-> geo.lat,
     lon |-> geo.lon]

\* s[i], or d where s is shorter
At(s, i, d) == IF i \in DOMAIN s THEN s[i] ELSE d

\* the clusters an input describes, with ids ClusterIds[1..Len(in.profiles)]:
\* profiles gives primary source and time, tops the topSources (by default the
\* primary source alone), threats the threat, geos the cluster's lat and lon,
\* itemGeos its newest item's (by default none)
ClustersOf(in) ==
    [i \in DOMAIN in.profiles |->
        Cluster(ClusterIds[i], in.profiles[i][1], in.profiles[i][2],
                At(in.tops, i, <<SourceEntry(in.profiles[i][1])>>),
                At(in.threats, i, None),
                At(in.geos, i, NoGeo),
                At(in.itemGeos, i, NoGeo))]

SeqsUpTo(S, n) == UNION {[1..k -> S] : k \in 0..n}

\* what the oracle may answer: at most two groups of the first n ids, known or
\* not, with repetitions, n ids in all
GroupLists(n) ==
    {gs \in SeqsUpTo(SeqsUpTo(KnownIds(n), n), 2) : Len(Concat(gs)) <= n}

\* an input names the profiles of its clusters and the oracle's groups
MergeInputs(n) ==
    [profiles : SeqsUpTo(Profiles, n), groups : GroupLists(n),
     tops : {<<>>}, threats : {<<>>}, geos : {<<>>}, itemGeos : {<<>>}]

MergeClusters == ClustersOf(fnIn)

ApplyMerge ==
    /\ fnOut = <<>>
    /\ fnOut' = <<mergeSemanticallySimilarClusters(MergeClusters, fnIn.groups)>>
    /\ UNCHANGED <<vars, dedupVars, fnIn, fnPc, fnEffects, liveVars, hybridVars>>

MergeInit ==
    Quiet /\ fnIn \in MergeInputs(MaxClusters) /\ fnOut = <<>>

SpecMerge == MergeInit /\ [][ApplyMerge]_allVars

\* ------------------------------------------------- claims about the merge

Merged == Len(fnOut) > 0
MergeOutput == fnOut[1]
\* the i-th input cluster has the id ClusterIds[i]
InputIds == {ClusterIds[i] : i \in DOMAIN fnIn.profiles}
ClusterById(id) == MergeClusters[CHOOSE i \in DOMAIN fnIn.profiles : ClusterIds[i] = id]

\* the members of group g: the known clusters it names that no earlier group
\* has named
GroupMembers(g) ==
    {id \in Range(fnIn.groups[g]) \cap InputIds :
        \A h \in 1..(g - 1) : id \notin Range(fnIn.groups[h])}

HoldsItemsOf(out, id) == Range(ClusterById(id).allItems) \subseteq Range(out.allItems)

TierOf(id) == getSourceTier(ClusterById(id).primarySource)

\* no member has a lower tier, and none of the same tier is more recent
BestOf(members, id) ==
    \A m \in members :
        /\ TierOf(id) <= TierOf(m)
        /\ TierOf(id) = TierOf(m) => ClusterById(id).lastUpdated >= ClusterById(m).lastUpdated

SameIdentity(out, c) ==
    /\ out.id = c.id
    /\ out.primaryTitle = c.primaryTitle
    /\ out.primaryLink = c.primaryLink
    /\ out.primarySource = c.primarySource

\* C13: for every group with at least two known clusters to merge, the
\* cluster merged from them takes id, primaryTitle, primaryLink and
\* primarySource from the member whose primary source has the lowest tier
\* number, the most recent one among those of that tier.
C13_PrimaryIsLowestTierMostRecent ==
    Merged =>
        \A g \in DOMAIN fnIn.groups :
            Cardinality(GroupMembers(g)) >= 2 =>
                \E o \in DOMAIN MergeOutput :
                    /\ \A m \in GroupMembers(g) : HoldsItemsOf(MergeOutput[o], m)
                    /\ MergeOutput[o].id \in GroupMembers(g)
                    /\ BestOf(GroupMembers(g), MergeOutput[o].id)
                    /\ SameIdentity(MergeOutput[o], ClusterById(MergeOutput[o].id))

\* a merged group of three in which the lowest tier is held by an older
\* cluster than a member of a higher tier, and by two members of different age
C13_Witness ==
    /\ Merged
    /\ \E g \in DOMAIN fnIn.groups :
           /\ Cardinality(GroupMembers(g)) >= 3
           /\ \E a, b, c \in GroupMembers(g) :
                  /\ TierOf(a) < TierOf(c)
                  /\ ClusterById(a).lastUpdated < ClusterById(c).lastUpdated
                  /\ TierOf(a) = TierOf(b)
                  /\ ClusterById(a).lastUpdated < ClusterById(b).lastUpdated
                  /\ \E o \in DOMAIN MergeOutput : MergeOutput[o].id = b

RECURSIVE SumSeq(_)
SumSeq(ns) == IF ns = <<>> THEN 0 ELSE Head(ns) + SumSeq(Tail(ns))

\* the input clusters whose items an output cluster holds
MembersOf(out) == {id \in InputIds : HoldsItemsOf(out, id)}

SourceCountOf(ids) ==
    SumSeq([i \in DOMAIN MergeClusters |->
              IF MergeClusters[i].id \in ids THEN MergeClusters[i].sourceCount ELSE 0])

\* C14: whatever the oracle answers, every cluster of the merge holds the items
\* of each of its member clusters exactly once, and its sourceCount is the
\* length of allItems and the sum of its members' sourceCounts.
C14_ItemsOncePerMember ==
    Merged =>
        \A o \in DOMAIN MergeOutput :
            LET out == MergeOutput[o] IN
            /\ \A i, j \in DOMAIN out.allItems : i # j => out.allItems[i] # out.allItems[j]
            /\ out.sourceCount = Len(out.allItems)
            /\ out.sourceCount = SourceCountOf(MembersOf(out))

\* ------------------------------------------------ topSources of the merge
\* Three clusters, the topSources of two of them drawn from a pool of six
\* sources, each list sorted by tier and free of duplicates as clusterNewsCore
\* leaves it.

MaxTopSources == 3

TopSourcePool ==
    <<[url |-> "u1", tier |-> 1], [url |-> "u2", tier |-> 1], [url |-> "u3", tier |-> 2],
      [url |-> "u4", tier |-> 2], [url |-> "u5", tier |-> 3], [url |-> "u6", tier |-> 4]>>

\* the elements of pool at the indices I, in the order of pool
Pick(pool, I) ==
    LET nth(k) == CHOOSE i \in I : Cardinality({j \in I : j < i}) = k - 1
    IN [k \in 1..Cardinality(I) |-> pool[nth(k)]]

\* the sorted lists of at most n sources of the pool
TopSourceLists(n) ==
    {Pick(TopSourcePool, I) :
        I \in {J \in SUBSET DOMAIN TopSourcePool : Cardinality(J) <= n}}

TrioProfiles == <<<<"wire", 10>>, <<"wire", 20>>, <<"blog", 20>>>>
TrioGroups == {<<<<"A", "B", "C">>>>, <<<<"C", "A">>, <<"B">>>>}

TopSourcesInputs(n) ==
    [profiles : {TrioProfiles}, groups : TrioGroups,
     tops : {<<a, b, Pick(TopSourcePool, {5, 6})>> : a, b \in TopSourceLists(n)},
     threats : {<<>>}, geos : {<<>>}, itemGeos : {<<>>}]

TopSourcesInit ==
    Quiet /\ fnIn \in TopSourcesInputs(MaxTopSources) /\ fnOut = <<>>

SpecTopSources == TopSourcesInit /\ [][ApplyMerge]_allVars

Urls(sources) == {sources[i].url : i \in DOMAIN sources}

\* the topSources entries of the clusters in ids
SourcesOf(ids) == UNION {Range(ClusterById(id).topSources) : id \in ids}

\* C15: every cluster the merge produces has at most five topSources, no two
\* with the same url, in non-decreasing tier order, each of them a topSources
\* entry of one of its member clusters.
C15_TopSourcesCappedSortedDistinct ==
    Merged =>
        \A o \in DOMAIN MergeOutput :
            LET top == MergeOutput[o].topSources IN
            /\ Len(top) <= 5
            /\ \A i, j \in DOMAIN top : i # j => top[i].url # top[j].url
            /\ \A i, j \in DOMAIN top : i < j => top[i].tier <= top[j].tier
            /\ Range(top) \subseteq SourcesOf(MembersOf(MergeOutput[o]))

\* a merged cluster whose members list more than five urls between them, one
\* of them twice, and which keeps five
C15_Witness ==
    /\ Merged
    /\ \E o \in DOMAIN MergeOutput :
           /\ \E a, b \in MembersOf(MergeOutput[o]) :
                  a # b /\ Urls(ClusterById(a).topSources) \cap Urls(ClusterById(b).topSources) # {}
           /\ Cardinality(Urls(MergeOutput[o].topSources)) = 5
           /\ \E e \in SourcesOf(MembersOf(MergeOutput[o])) :
                  e.url \notin Urls(MergeOutput[o].topSources)

\* the groups that name id
GroupsNaming(id) == {g \in DOMAIN fnIn.groups : id \in Range(fnIn.groups[g])}
FirstGroupNaming(id) == CHOOSE g \in GroupsNaming(id) : \A h \in GroupsNaming(id) : g <= h

TotalItems(clusters) == SumSeq([i \in DOMAIN clusters |-> Len(clusters[i].allItems)])

\* each input cluster is in one output cluster; one that no group names is
\* output as it is; one that groups name is merged with the members of the
\* first group naming it, and with no other cluster
C16_Partition ==
    \A i \in DOMAIN MergeClusters :
        LET c == MergeClusters[i] IN
        /\ Cardinality({o \in DOMAIN MergeOutput : HoldsItemsOf(MergeOutput[o], c.id)}) = 1
        /\ GroupsNaming(c.id) = {} => \E o \in DOMAIN MergeOutput : MergeOutput[o] = c
        /\ GroupsNaming(c.id) # {} =>
               \E o \in DOMAIN MergeOutput :
                   MembersOf(MergeOutput[o]) = GroupMembers(FirstGroupNaming(c.id))

\* C16: the merge puts every input cluster in exactly one output cluster,
\* passes the clusters of no group through unchanged, merges a cluster named
\* by several groups into the first only, ignores unknown ids, and keeps the
\* total number of items.
C16_MergePartitionsInput ==
    Merged =>
        /\ C16_Partition
        /\ \A o \in DOMAIN MergeOutput : MergeOutput[o].id \in InputIds
        /\ TotalItems(MergeOutput) = TotalItems(MergeClusters)

\* ---------------------------------------------------- threat of the merge
\* Three clusters with any threat level, a level THREAT_PRIORITY does not
\* list, or no threat.

ThreatLevels == {"critical", "high", "medium", "low", "info", "severe"}

\* the threat of the cluster id
Threat(level, id) == IF level = "none" THEN None ELSE Some([level |-> level, category |-> id])

ThreatInputs ==
    [profiles : {TrioProfiles}, groups : TrioGroups, tops : {<<>>},
     threats : {[i \in DOMAIN l |-> Threat(l[i], ClusterIds[i])] :
                   l \in [DOMAIN TrioProfiles -> ThreatLevels \cup {"none"}]},
     geos : {<<>>}, itemGeos : {<<>>}]

ThreatInit ==
    Quiet /\ fnIn \in ThreatInputs /\ fnOut = <<>>

SpecThreat == ThreatInit /\ [][ApplyMerge]_allVars

\* the ranking the claim gives: a level it does not name ranks lowest
ClaimedPriority(level) ==
    CASE level = "critical" -> 5
      [] level = "high" -> 4
      [] level = "medium" -> 3
      [] level = "low" -> 2
      [] OTHER -> 1

\* the threats the clusters in ids carry
ThreatsOf(ids) == UNION {Range(ClusterById(id).threat) : id \in ids}

\* C19: the threat of a merged cluster is a threat of one of its members, of
\* the highest priority among them, a level outside the table counting as the
\* lowest; it is undefined exactly when no member carries a threat.
C19_MergedThreatIsHighestPriority ==
    Merged =>
        \A o \in DOMAIN MergeOutput :
            LET out == MergeOutput[o]
                threats == ThreatsOf(MembersOf(out))
            IN Cardinality(MembersOf(out)) >= 2 =>
                   /\ IsSome(out.threat) <=> threats # {}
                   /\ IsSome(out.threat) =>
                          /\ out.threat[1] \in threats
                          /\ \A t \in threats :
                                 ClaimedPriority(out.threat[1].level) >= ClaimedPriority(t.level)

\* a merged cluster that takes a member's threat over the primary's lower one
\* and over one of a level outside the table
C19_Witness ==
    /\ Merged
    /\ \E o \in DOMAIN MergeOutput :
           LET out == MergeOutput[o] IN
           /\ Cardinality(MembersOf(out)) >= 3
           /\ IsSome(out.threat)
           /\ IsSome(ClusterById(out.id).threat)
           /\ out.threat[1].category # out.id
           /\ \E t \in ThreatsOf(MembersOf(out)) : t.level \notin DOMAIN THREAT_PRIORITY

\* ------------------------------------------------------- geo of the merge
\* Three clusters, each with lat and lon, one of the two or neither, and the
\* same for the newest item of each; all coordinates differ, one is 0.

GeoKinds == {"both", "lat", "lon", "none"}

Geo(kind, base) ==
    [lat |-> IF kind \in {"both", "lat"} THEN Some(base) ELSE None,
     lon |-> IF kind \in {"both", "lon"} THEN Some(base + 1) ELSE None]

GeoInputs(kinds) ==
    [profiles : {TrioProfiles}, groups : TrioGroups, tops : {<<>>}, threats : {<<>>},
     geos : {[i \in DOMAIN k |-> Geo(k[i], 10 * (i - 1))] :
                k \in [DOMAIN TrioProfiles -> kinds]},
     itemGeos : {[i \in DOMAIN k |-> Geo(k[i], 10 * (i - 1) + 5)] :
                    k \in [DOMAIN TrioProfiles -> kinds]}]

GeoInit ==
    Quiet /\ fnIn \in GeoInputs(GeoKinds) /\ fnOut = <<>>

SpecGeo == GeoInit /\ [][ApplyMerge]_allVars

\* the members of an output cluster, the primary first, the others in the
\* order the merge considers them
MemberOrder(out) ==
    LET IsMember(c) == c.id \in MembersOf(out)
    IN SortByTier(Filter(MergeClusters, IsMember))

SameGeo(out, x) == out.lat = x.lat /\ out.lon = x.lon

FirstWithGeo(s) == s[CHOOSE i \in DOMAIN s : HasGeo(s[i]) /\ \A j \in 1..(i - 1) : ~HasGeo(s[j])]
SomeHasGeo(s) == \E i \in DOMAIN s : HasGeo(s[i])

\* C20: the lat and lon of a merged cluster are those of the primary if it has
\* both, else of the first other member that has both, else of the first of
\* the unioned items that has both, else absent; they always come as the pair
\* of one cluster or one item.
C20_GeoByFirstMatch ==
    Merged =>
        \A o \in DOMAIN MergeOutput :
            LET out == MergeOutput[o]
                primary == MemberOrder(out)[1]
                others == Tail(MemberOrder(out))
            IN Cardinality(MembersOf(out)) >= 2 =>
                   /\ primary.id = out.id
                   /\ HasGeo(primary) => SameGeo(out, primary)
                   /\ ~HasGeo(primary) /\ SomeHasGeo(others) => SameGeo(out, FirstWithGeo(others))
                   /\ ~HasGeo(primary) /\ ~SomeHasGeo(others) /\ SomeHasGeo(out.allItems) =>
                          SameGeo(out, FirstWithGeo(out.allItems))
                   /\ ~HasGeo(primary) /\ ~SomeHasGeo(others) /\ ~SomeHasGeo(out.allItems) =>
                          ~IsSome(out.lat) /\ ~IsSome(out.lon)
                   /\ IsSome(out.lat) <=> IsSome(out.lon)

\* a merged cluster whose primary has a lat but no lon, whose next member has
\* neither, and which takes the pair of its last member
C20_Witness ==
    /\ Merged
    /\ \E o \in DOMAIN MergeOutput :
           LET out == MergeOutput[o]
               order == MemberOrder(out)
           IN /\ Len(order) >= 3
              /\ IsSome(order[1].lat) /\ ~IsSome(order[1].lon)
              /\ ~HasGeo(order[2])
              /\ HasGeo(order[3])
              /\ SomeHasGeo(out.allItems)
              /\ SameGeo(out, order[3])

\* ======================================================= clusterNewsHybrid
\* One call of clusterNewsHybrid (src/unnamed/part_001).  The call's items are
\* given by the clusters clusterNewsCore makes of them; whether the oracle is
\* available is an input, what the oracle does is chosen when it is called.

\* ML_THRESHOLDS.minClustersForML
minClustersForML == 2

HybridInputs ==
    [profiles : SeqsUpTo(Profiles, MaxClusters), available : BOOLEAN,
     tops : {<<>>}, threats : {<<>>}, geos : {<<>>}, itemGeos : {<<>>}]

\* what the oracle's promise may resolve with
OracleAnswers == {<<>>, <<<<"A", "B">>>>, <<<<"B", "A", "C">>>>, <<<<"C", "A">>, <<"B", "X">>>>}

\* const jaccardClusters = clusterNewsCore(items, getSourceTier)
jaccardClusters == ClustersOf(fnIn)

Returned(clusters) == [ok |-> TRUE, clusters |-> clusters]
Thrown == [ok |-> FALSE, clusters |-> <<>>]

\* variant: the oracle is called whether it is available or not
EnoughClusters(available, n) == ~(n < minClustersForML)

\* the negation of the condition of line 34
UsesOracle(available, n) == ~(~available \/ n < minClustersForML)

\* step 2: ML unavailable or too few clusters
HybridReturnsJaccard ==
    /\ hybridPc = "idle"
    /\ ~UsesOracle(fnIn.available, Len(jaccardClusters))
    /\ hybridPc' = "done"
    /\ fnOut' = <<Returned(jaccardClusters)>>
    /\ UNCHANGED <<vars, dedupVars, fnIn, fnPc, fnEffects, liveVars, oracleCalls, oracleOutcome>>

\* the call of mlWorker.clusterBySemanticSimilarity returns a promise
HybridCallsOracle ==
    /\ hybridPc = "idle"
    /\ UsesOracle(fnIn.available, Len(jaccardClusters))
    /\ oracleCalls' = oracleCalls + 1
    /\ oracleOutcome' = "pending"
    /\ hybridPc' = "awaiting"
    /\ UNCHANGED <<vars, dedupVars, fnIn, fnPc, fnEffects, liveVars, fnOut>>

\* variant: the catch block throws the error again
CatchRethrows == Thrown

\* catch (error): console.warn, return jaccardClusters
CatchReturnsJaccard == Returned(jaccardClusters)

\* the call of mlWorker.clusterBySemanticSimilarity throws
HybridOracleThrows ==
    /\ hybridPc = "idle"
    /\ UsesOracle(fnIn.available, Len(jaccardClusters))
    /\ oracleCalls' = oracleCalls + 1
    /\ oracleOutcome' = "threw"
    /\ hybridPc' = "done"
    /\ fnOut' = <<CatchReturnsJaccard>>
    /\ UNCHANGED <<vars, dedupVars, fnIn, fnPc, fnEffects, liveVars>>

\* the promise resolves with groups: return mergeSemanticallySimilarClusters
OracleResolves(semanticGroups) ==
    /\ hybridPc = "awaiting"
    /\ oracleOutcome' = "resolved"
    /\ hybridPc' = "done"
    /\ fnOut' = <<Returned(mergeSemanticallySimilarClusters(jaccardClusters, semanticGroups))>>
    /\ UNCHANGED <<vars, dedupVars, fnIn, fnPc, fnEffects, liveVars, oracleCalls>>

\* the promise resolves with a value that is no array of arrays: the loop of
\* mergeSemanticallySimilarClusters throws a TypeError inside the try block
OracleResolvesMalformed ==
    /\ hybridPc = "awaiting"
    /\ oracleOutcome' = "malformed"
    /\ hybridPc' = "done"
    /\ fnOut' = <<CatchReturnsJaccard>>
    /\ UNCHANGED <<vars, dedupVars, fnIn, fnPc, fnEffects, liveVars, oracleCalls>>

\* the promise rejects
OracleRejects ==
    /\ hybridPc = "awaiting"
    /\ oracleOutcome' = "rejected"
    /\ hybridPc' = "done"
    /\ fnOut' = <<CatchReturnsJaccard>>
    /\ UNCHANGED <<vars, dedupVars, fnIn, fnPc, fnEffects, liveVars, oracleCalls>>

HybridNext ==
    \/ HybridReturnsJaccard
    \/ HybridCallsOracle
    \/ HybridOracleThrows
    \/ \E semanticGroups \in OracleAnswers : OracleResolves(semanticGroups)
    \/ OracleResolvesMalformed
    \/ OracleRejects

HybridInit ==
    Quiet /\ fnIn \in HybridInputs /\ fnOut = <<>>

SpecHybrid == HybridInit /\ [][HybridNext]_allVars

\* C17 as stated: the oracle is called only when it is available and there
\* are more Jaccard clusters than the minimum threshold.
C17_Original ==
    oracleCalls > 0 => fnIn.available /\ Len(jaccardClusters) > minClustersForML

\* C17: the oracle is called only when it is available and there are at least
\* minClustersForML Jaccard clusters; in every other case the call returns the
\* Jaccard clusters unchanged and the oracle is never called.
C17_OracleOnlyWhenAvailableAndEnough ==
    /\ oracleCalls > 0 => fnIn.available /\ Len(jaccardClusters) >= minClustersForML
    /\ hybridPc = "done" /\ ~(fnIn.available /\ Len(jaccardClusters) >= minClustersForML) =>
           fnOut = <<Returned(jaccardClusters)>> /\ oracleCalls = 0

\* the oracle has been called for exactly minClustersForML clusters
C17_Witness ==
    /\ oracleCalls = 1
    /\ fnIn.available
    /\ Len(jaccardClusters) = minClustersForML

OracleFailed == oracleOutcome \in {"threw", "rejected", "malformed"}

\* C18: when the oracle call throws or rejects, or the merge fails, the call
\* returns exactly the Jaccard clusters of step 1 and raises no error.
C18_FailureReturnsJaccard ==
    OracleFailed => hybridPc = "done" /\ fnOut = <<Returned(jaccardClusters)>>

\* the merge has failed on the oracle's answer for three clusters
C18_Witness ==
    /\ oracleOutcome = "malformed"
    /\ hybridPc = "done"
    /\ Len(jaccardClusters) > minClustersForML

\* ============================================ clusterNews: worker or fallback
\* The same items clustered on the two paths of AnalysisWorkerManager.clusterNews:
\* posted to the worker with the tier table and deserialized from its answer,
\* or handed to clusterNewsCore in process.  The clusterer (analysis-core) and
\* the worker script are described by the design document only.

MaxItems == 3

\* titles as sets of normalized tokens: the first two are similar
Titles == {{"fire", "city"}, {"fire", "city", "north"}, {"vote"}}
ItemSources == {"wire", "blog"}

\* a Date is the record of its time; a serialized date is the time itself
Date(t) == [time |-> t]

\* the lists of at most max items
FeedItems(max) ==
    UNION {{[i \in 1..n |-> [id |-> i, title |-> f[i][1], source |-> f[i][2],
                             pubDate |-> Date(f[i][3])]] :
               f \in [1..n -> Titles \X ItemSources \X Stamps]} : n \in 0..max}

\* a malformed item has no title: the clusterer skips it
NoTitle == {}
HasTitle(item) == item.title # NoTitle

\* Jaccard similarity of the token sets above one half
Similar(a, b) == 2 * Cardinality(a \cap b) > Cardinality(a \cup b)

Newer(a, b) == a.pubDate.time > b.pubDate.time

RECURSIVE GreedyClusters(_, _)
\* each item joins the first cluster whose first item has a similar title, or
\* starts a new one
GreedyClusters(items, clusters) ==
    IF items = <<>> THEN clusters
    ELSE LET item == Head(items)
             match == {k \in DOMAIN clusters : Similar(clusters[k][1].title, item.title)}
         IN IF match = {}
            THEN GreedyClusters(Tail(items), Append(clusters, <<item>>))
            ELSE LET k == CHOOSE x \in match : \A y \in match : x <= y
                 IN GreedyClusters(Tail(items),
                        [clusters EXCEPT ![k] = Append(@, item)])

\* the cluster of these members: the primary is the most trusted, then most
\* recent member, the id comes from the first-seen member
EventOf(members, tier(_)) ==
    LET Trusted(a, b) ==
            \/ tier(a.source) < tier(b.source)
            \/ tier(a.source) = tier(b.source) /\ Newer(a, b)
        primary == StableSort(members, Trusted)[1]
        Older(a, b) == Newer(b, a)
        first == StableSort(members, Older)[1]
    IN [id |-> <<"cluster", first.id>>,
        primaryTitle |-> primary.title,
        primarySource |-> primary.source,
        sourceCount |-> Len(members),
        allItems |-> members,
        firstSeen |-> Date(SeqMin([i \in DOMAIN members |-> members[i].pubDate.time])),
        lastUpdated |-> Date(SeqMax([i \in DOMAIN members |-> members[i].pubDate.time]))]

\* clusterNewsCore(items, getSourceTier) with the tier lookup tier
clusterNewsCoreBy(items, tier(_)) ==
    LET groups == GreedyClusters(StableSort(Filter(items, HasTitle), Newer), <<>>)
    IN [k \in DOMAIN groups |-> EventOf(groups[k], tier)]

\* runClusterFallback(items)
runClusterFallbackOn(items) == clusterNewsCoreBy(items, getSourceTier)

\* variant: the message carries an empty tier table
ClusterMessageWithoutTiers(id, items) ==
    [type |-> "cluster", id |-> id, items |-> items, sourceTiers |-> <<>>]

\* the message clusterNews posts
ClusterMessage(id, items) ==
    [type |-> "cluster", id |-> id, items |-> items, sourceTiers |-> SourceTierTable]

\* what the worker answers to a cluster message: the clusters of the items
\* under the table of the message, dates serialized
WorkerAnswer(message) ==
    LET tier(source) == IF source \in DOMAIN message.sourceTiers
                        THEN message.sourceTiers[source] ELSE DefaultTier
        clusters == clusterNewsCoreBy(message.items, tier)
        Serialized(item) == [item EXCEPT !.pubDate = @.time]
    IN [type |-> "cluster-result",
        id |-> message.id,
        clusters |-> [k \in DOMAIN clusters |->
                        [clusters[k] EXCEPT
                            !.firstSeen = @.time,
                            !.lastUpdated = @.time,
                            !.allItems = [i \in DOMAIN @ |-> Serialized(@[i])]]]]

\* onmessage, cluster-result: the clusters with their dates deserialized
DeserializeClusters(data) ==
    [k \in DOMAIN data.clusters |->
        [data.clusters[k] EXCEPT
            !.firstSeen = Date(@),
            !.lastUpdated = Date(@),
            !.allItems = [i \in DOMAIN @ |-> [@[i] EXCEPT !.pubDate = Date(@)]]]]

Served(path) == \E i \in DOMAIN fnOut : fnOut[i].path = path
ResultOf(path) == fnOut[CHOOSE i \in DOMAIN fnOut : fnOut[i].path = path].clusters

\* clusterNews resolved with the worker's answer to its message
ServeByWorker ==
    /\ ~Served("worker")
    /\ fnOut' = Append(fnOut,
           [path |-> "worker",
            clusters |-> DeserializeClusters(WorkerAnswer(ClusterMessage(generateId, fnIn)))])
    /\ UNCHANGED <<vars, dedupVars, fnIn, fnPc, fnEffects, liveVars, hybridVars>>

\* clusterNews resolved by runClusterFallback
ServeByFallback ==
    /\ ~Served("fallback")
    /\ fnOut' = Append(fnOut, [path |-> "fallback", clusters |-> runClusterFallbackOn(fnIn)])
    /\ UNCHANGED <<vars, dedupVars, fnIn, fnPc, fnEffects, liveVars, hybridVars>>

EquivNext == ServeByWorker \/ ServeByFallback

EquivInit == Quiet /\ fnIn \in FeedItems(MaxItems) /\ fnOut = <<>>

SpecEquiv == EquivInit /\ [][EquivNext]_allVars

Projection(clusters) ==
    {<<clusters[k].id, clusters[k].primaryTitle, clusters[k].sourceCount>> : k \in DOMAIN clusters}

MixedItems(max) ==
    UNION {{[i \in 1..n |-> [id |-> i, title |-> f[i][1], source |-> "wire",
                             pubDate |-> Date(f[i][2])]] :
               f \in [1..n -> (Titles \cup {NoTitle}) \X Stamps]} : n \in 0..max}

\* variant: every item a cluster of its own, the clusterer not called
clusterNewsPerItem(items) ==
    [k \in DOMAIN items |-> EventOf(<<items[k]>>, getSourceTier)]

\* clusterNews(items): clusterNewsCore(items, getSourceTier)
clusterNews(items) == clusterNewsCoreBy(items, getSourceTier)

ApplyClusterNews ==
    /\ fnOut = <<>>
    /\ fnOut' = <<clusterNews(fnIn)>>
    /\ UNCHANGED <<vars, dedupVars, fnIn, fnPc, fnEffects, liveVars, hybridVars>>

ClustererInit ==
    Quiet /\ fnIn \in MixedItems(MaxItems) /\ fnOut = <<>>

SpecClusterer == ClustererInit /\ [][ApplyClusterNews]_allVars

\* the output clusters that hold the item
ClustersHolding(item) ==
    {k \in DOMAIN fnOut[1] : \E i \in DOMAIN fnOut[1][k].allItems : fnOut[1][k].allItems[i] = item}

\* how often the item occurs in the allItems of cluster k
Occurrences(item, k) ==
    Cardinality({i \in DOMAIN fnOut[1][k].allItems : fnOut[1][k].allItems[i] = item})

-----------------------------------------------------------------------------
\* The YouTube latest-upload endpoint (api/youtube/latest.js).  Strings are
\* sequences of one-character strings, so that trimming, prefixing and the
\* regular expressions act on what they act on in the code.

Letters == {"a", "c", "r", "x", "C", "U", "Z"}
DigitChars == <<"0", "1", "2", "3", "4", "5", "6", "7", "8", "9">>
Digits == Range(DigitChars)
HandleChars == Letters \cup Digits \cup {".", "_", "-"}
ChannelIdChars == Letters \cup Digits \cup {"_", "-"}
HandleMin == 3
HandleMax == 40
ChannelIdLen == 22

\* A query parameter that is absent: searchParams.get() gives null.
Absent == <<"null">>
Repeat(c, n) == [i \in 1..n |-> c]

RECURSIVE TrimStart(_)
TrimStart(s) == IF s # <<>> /\ Head(s) = " " THEN TrimStart(Tail(s)) ELSE s
RECURSIVE TrimEnd(_)
TrimEnd(s) == IF s # <<>> /\ s[Len(s)] = " " THEN TrimEnd(SubSeq(s, 1, Len(s) - 1)) ELSE s
Trim(s) == TrimEnd(TrimStart(s))

HandlePattern(h) ==
    /\ Len(h) - 1 \in HandleMin..HandleMax
    /\ h[1] = "@"
    /\ \A i \in 2..Len(h) : h[i] \in HandleChars
\* A variant that takes the handle's character class for the id.
ChannelIdPatternWithDots(c) ==
    /\ Len(c) = 2 + ChannelIdLen
    /\ c[1] = "U" /\ c[2] = "C"
    /\ \A i \in 3..Len(c) : c[i] \in HandleChars
ChannelIdPattern(c) ==
    /\ Len(c) = 2 + ChannelIdLen
    /\ c[1] = "U" /\ c[2] = "C"
    /\ \A i \in 3..Len(c) : c[i] \in ChannelIdChars


sanitizeHandle(value) ==
    IF value = Absent THEN None
    ELSE LET trimmed == Trim(value)
             handle == IF trimmed # <<>> /\ trimmed[1] = "@" THEN trimmed
                       ELSE <<"@">> \o trimmed
         IN  IF trimmed = <<>> THEN None
             ELSE IF HandlePattern(handle) THEN Some(handle) ELSE None

sanitizeChannelId(value) ==
    IF value = Absent THEN None
    ELSE LET trimmed == Trim(value)
         IN  IF ChannelIdPattern(trimmed) THEN Some(trimmed) ELSE None

\* Number.parseInt(text, 10): leading blanks, an optional sign, then the
\* longest run of digits; NaN (None) when there is no digit.
DigitValue(c) == CHOOSE d \in 0..9 : DigitChars[d + 1] = c
RECURSIVE DigitRun(_, _)
DigitRun(s, acc) ==
    IF s # <<>> /\ Head(s) \in Digits
    THEN DigitRun(Tail(s), acc * 10 + DigitValue(Head(s)))
    ELSE acc
parseInt(text) ==
    LET t == TrimStart(text)
        signed == t # <<>> /\ Head(t) \in {"-", "+"}
        rest == IF signed THEN Tail(t) ELSE t
        magnitude == DigitRun(rest, 0)
    IN  IF rest = <<>> \/ Head(rest) \notin Digits THEN None
        ELSE IF signed /\ Head(t) = "-" THEN Some(0 - magnitude) ELSE Some(magnitude)

Min(a, b) == IF a < b THEN a ELSE b
Max(a, b) == IF a > b THEN a ELSE b
sanitizePositiveInt(value, fallback, min, max) ==
    LET parsed == parseInt(IF value = Absent THEN <<>> ELSE value)
    IN  IF ~IsSome(parsed) THEN fallback ELSE Min(max, Max(min, parsed[1]))

DefaultDays == 14
MinDays == 1
MaxDays == 90
DefaultLimit == 30
MinLimit == 1
MaxLimit == 100

\* Titles are sequences of tokens; an entity is one token.  The replacements
\* run in the code's order, so "&amp;lt;" ends as "<".
DecodeToken(t) ==
    LET a == IF t = "&amp;" THEN "&" ELSE IF t = "&amp;lt;" THEN "&lt;" ELSE t
    IN  IF a = "&lt;" THEN "<" ELSE a
decodeXml(value) == [i \in DOMAIN value |-> DecodeToken(value[i])]

\* What the upstream sends for one <entry>: a video id tag that matches or
\* not, a title, and a <published> tag that is missing, unparsable or a day.
NoPublished == 0 - 2
NotADate == 0 - 1
VideoIds == <<"v1", "v2", "v3", "v4", "v5">>
EntryTitles == <<"&amp;", "&amp;lt;", "x", "&lt;", "&amp;">>
RawEntry(i, hasId, published) ==
    [videoId |-> IF hasId THEN Some(VideoIds[i]) ELSE None,
     title |-> <<"T", EntryTitles[i]>>,
     published |-> published]
HasVideoId(raw) == IsSome(raw.videoId)
\* Date.parse: a number of days, or NaN (None).
DateParse(published) == IF published >= 0 THEN Some(published) ELSE None
ParseEntry(raw) ==
    [videoId |-> raw.videoId[1],
     title |-> decodeXml(raw.title),
     publishedAt |-> IF raw.published = NoPublished THEN None ELSE Some(raw.published),
     publishedMs |-> IF raw.published = NoPublished THEN None ELSE DateParse(raw.published)]
ParseEntries(xml) ==
    LET kept == Filter(xml, HasVideoId)
    IN  [i \in DOMAIN kept |-> ParseEntry(kept[i])]

ResolvedChannelId == <<"U", "C">> \o Repeat("r", ChannelIdLen)
HandlePage(handle) == [url |-> "handle-page", arg |-> handle]
FeedUrl(channelId) == [url |-> "feed", arg |-> channelId]

\* A response: its status and the fields of its JSON body (None where the body
\* has no such field or holds null there).
Response(status, error, videoId, channelId, title, publishedAt, recentVideoIds) ==
    [status |-> status, error |-> error, videoId |-> videoId, channelId |-> channelId,
     title |-> title, publishedAt |-> publishedAt, recentVideoIds |-> recentVideoIds]
ErrorResponse(status, message) == Response(status, Some(message), None, None, None, None, None)
EmptyResponse(status) == Response(status, None, None, None, None, None, None)
NoVideo(channelId) == Response(200, None, None, channelId, None, None, None)
Caught == Response(200, Some("fetch failed"), None, None, None, None, None)

handle == sanitizeHandle(fnIn.channel)
explicitChannelId == sanitizeChannelId(fnIn.channelId)
recentDays == sanitizePositiveInt(fnIn.days, DefaultDays, MinDays, MaxDays)
recentLimit == sanitizePositiveInt(fnIn.limit, DefaultLimit, MinLimit, MaxLimit)

Respond(response) ==
    /\ fnOut' = <<response>>
    /\ fnPc' = "done"
    /\ UNCHANGED fnEffects
Fetch(request, pc) ==
    /\ fnEffects' = Append(fnEffects, request)
    /\ fnPc' = pc
    /\ UNCHANGED fnOut

NeedsResolve == ~IsSome(explicitChannelId)

\* handler, up to its first await.
HandlerReceives ==
    /\ fnPc = "idle"
    /\ fnOut = <<>>
    /\ IF fnIn.method = "OPTIONS" THEN Respond(EmptyResponse(204))
       ELSE IF fnIn.disallowed THEN Respond(ErrorResponse(403, "Origin not allowed"))
       ELSE IF ~IsSome(handle) /\ ~IsSome(explicitChannelId)
            THEN Respond(ErrorResponse(400, "Missing channel or channelId parameter"))
       ELSE IF NeedsResolve THEN Fetch(HandlePage(handle[1]), "resolving")
       ELSE Fetch(FeedUrl(explicitChannelId[1]), "fetching")
    /\ UNCHANGED <<vars, dedupVars, fnIn, liveVars, hybridVars>>

\* resolveChannelIdFromHandle settles, and the handler goes on.
HandleResolves ==
    /\ fnPc = "resolving"
    /\ IF fnIn.resolve = "throws" THEN Respond(Caught)
       ELSE IF fnIn.resolve \in {"notOk", "noMatch"} THEN Respond(NoVideo(None))
       ELSE Fetch(FeedUrl(ResolvedChannelId), "fetching")
    /\ UNCHANGED <<vars, dedupVars, fnIn, liveVars, hybridVars>>

\* A variant of the recent list that truncates before it filters.
RecentTruncatedFirst(entries, cutoff, limit) ==
    LET cut == Take(entries, limit)
        InWindow(e) == IsSome(e.publishedMs) /\ e.publishedMs[1] >= cutoff
        kept == Filter(cut, InWindow)
    IN  [i \in DOMAIN kept |-> kept[i].videoId]
RecentVideoIds(entries, cutoff, limit) ==
    LET InWindow(e) == IsSome(e.publishedMs) /\ e.publishedMs[1] >= cutoff
        kept == Take(Filter(entries, InWindow), limit)
    IN  [i \in DOMAIN kept |-> kept[i].videoId]

\* fetchLatestFromFeed settles, and the handler answers.
FeedAnswers ==
    /\ fnPc = "fetching"
    /\ LET channelId == fnEffects[Len(fnEffects)].arg
           entries == ParseEntries(fnIn.feed.entries)
           cutoffMs == fnIn.now - recentDays
       IN  IF fnIn.feed.outcome = "throws" THEN Respond(Caught)
           ELSE IF fnIn.feed.outcome = "notOk" \/ entries = <<>>
                THEN Respond(NoVideo(Some(channelId)))
           ELSE Respond(Response(200, None, Some(entries[1].videoId), Some(channelId),
                                 Some(entries[1].title), entries[1].publishedAt,
                                 Some(RecentVideoIds(entries, cutoffMs, recentLimit))))
    /\ UNCHANGED <<vars, dedupVars, fnIn, liveVars, hybridVars>>

YouTubeNext == HandlerReceives \/ HandleResolves \/ FeedAnswers

\* Requests.  Parameter texts are built around the lengths and characters at
\* which the two patterns change their answer.
MaxEntries == 3
Today == 1000
Body(n, odd) == [i \in 1..n |-> IF i = 2 THEN odd ELSE "a"]
HandleTexts ==
    {Absent} \cup
    {Repeat(" ", p) \o Repeat("@", a) \o Body(n, odd) \o Repeat(" ", p) :
        p \in 0..1, a \in 0..2, odd \in {"a", ".", "!"},
        n \in {0, HandleMin - 1, HandleMin, HandleMax, HandleMax + 1}}
ChannelIdTexts ==
    {Absent} \cup
    {Repeat(" ", p) \o prefix \o Body(n, odd) \o Repeat(" ", p) :
        p \in 0..1, prefix \in {<<"U", "C">>, <<"U", "c">>}, odd \in {"a", ".", "-"},
        n \in {ChannelIdLen - 1, ChannelIdLen, ChannelIdLen + 1}}
GoodHandle == <<"@">> \o Repeat("a", HandleMin)
GoodChannelId == <<"U", "C">> \o Repeat("a", ChannelIdLen)
OneEntryFeed == [outcome |-> "ok", entries |-> <<RawEntry(1, TRUE, Today - 1)>>]
Request(method, disallowed, channel, channelId, days, limit, resolve, feed) ==
    [method |-> method, disallowed |-> disallowed, channel |-> channel,
     channelId |-> channelId, days |-> days, limit |-> limit, now |-> Today,
     resolve |-> resolve, feed |-> feed]
ParamRequests(feed) ==
    {Request(m, d, c, id, Absent, Absent, "found", feed) :
        m \in {"GET", "OPTIONS"}, d \in BOOLEAN, c \in HandleTexts, id \in ChannelIdTexts}

EntryKinds ==
    {<<TRUE, p>> : p \in {NoPublished, NotADate, Today - 1, Today - (MaxDays + 1)}}
        \cup {<<FALSE, Today - 1>>}
Feeds(max) ==
    {[outcome |-> o, entries |-> <<>>] : o \in {"throws", "notOk"}} \cup
    UNION {{[outcome |-> "ok",
             entries |-> [i \in 1..n |-> RawEntry(i, f[i][1], f[i][2])]] :
                f \in [1..n -> EntryKinds]} : n \in 0..max}
DaysTexts == {Absent, <<" ", "1", "x">>, <<"2", "0", "0">>}
LimitTexts == {Absent, <<"0">>, <<"2">>}
Channels ==
    {<<Absent, GoodChannelId, "found">>}
        \cup {<<GoodHandle, GoodChannelId, r>> : r \in {"found", "throws"}}
        \cup {<<GoodHandle, Absent, r>> : r \in {"found", "throws", "notOk", "noMatch"}}
FeedRequests(max) ==
    {Request("GET", FALSE, c[1], c[2], days, limit, c[3], feed) :
        c \in Channels, days \in DaysTexts, limit \in LimitTexts, feed \in Feeds(max)}

YouTubeInit ==
    /\ Quiet
    /\ fnIn \in ParamRequests(OneEntryFeed) \cup FeedRequests(MaxEntries)
    /\ fnOut = <<>>
SpecYouTube == YouTubeInit /\ [][YouTubeNext]_allVars

\* The value a parameter carries: its text without the blanks around it.
Inked(text) == {i \in DOMAIN text : text[i] # " "}
Carried(text) ==
    IF text = Absent \/ Inked(text) = {} THEN <<>>
    ELSE LET first == CHOOSE i \in Inked(text) : \A k \in Inked(text) : i <= k
             last == CHOOSE i \in Inked(text) : \A k \in Inked(text) : i >= k
         IN  SubSeq(text, first, last)
CarriesValidHandle(text) ==
    LET value == Carried(text)
        name == IF value # <<>> /\ value[1] = "@" THEN Tail(value) ELSE value
    IN  /\ Len(name) >= 3 /\ Len(name) <= 40
        /\ Range(name) \subseteq HandleChars
CarriesValidChannelId(text) ==
    LET value == Carried(text)
    IN  /\ Len(value) = 24
        /\ SubSeq(value, 1, 2) = <<"U", "C">>
        /\ Range(SubSeq(value, 3, 24)) \subseteq ChannelIdChars
NothingValid ==
    /\ fnIn.method # "OPTIONS"
    /\ ~fnIn.disallowed
    /\ ~CarriesValidHandle(fnIn.channel)
    /\ ~CarriesValidChannelId(fnIn.channelId)
Answered(status) == fnPc = "done" /\ fnOut # <<>> /\ fnOut[1].status = status

\* C22: once the handler has run, it has answered 400 exactly for a request
\* that is not OPTIONS, comes from an allowed origin and carries neither a
\* valid handle (3 to 40 characters of [A-Za-z0-9._-] after an optional @) nor
\* a valid channelId (UC and 22 characters of [A-Za-z0-9_-]); and a request
\* answered with 400 has made no upstream fetch.
C22_BadRequestIffNothingValid ==
    fnPc # "idle" =>
        /\ NothingValid => Answered(400)
        /\ Answered(400) => NothingValid /\ fnEffects = <<>>
C22_Witness ==
    /\ Answered(400)
    /\ fnEffects = <<>>
    /\ fnIn.channel # Absent
    /\ Len(Carried(fnIn.channel)) = HandleMax + 2
    /\ fnIn.channelId # Absent
    /\ Len(Carried(fnIn.channelId)) = ChannelIdLen + 2
    /\ "." \in Range(fnIn.channelId)

\* The channel the request names: the explicit id when it carries a valid one,
\* else the id its handle resolves to, if any.
NamedChannel ==
    IF CarriesValidChannelId(fnIn.channelId) THEN Some(Carried(fnIn.channelId))
    ELSE IF CarriesValidHandle(fnIn.channel) /\ fnIn.resolve = "found"
         THEN Some(ResolvedChannelId)
    ELSE None
\* Positions of the feed's entries (those with a video id), and of those
\* published within the window.
FeedEntries == {i \in DOMAIN fnIn.feed.entries : IsSome(fnIn.feed.entries[i].videoId)}
WithinWindow ==
    {i \in FeedEntries : /\ fnIn.feed.entries[i].published \notin {NoPublished, NotADate}
                         /\ fnIn.feed.entries[i].published >= fnIn.now - recentDays}
Nth(S, k) == CHOOSE i \in S : Cardinality({j \in S : j < i}) = k - 1
FeedServed ==
    /\ fnIn.method # "OPTIONS"
    /\ ~fnIn.disallowed
    /\ IsSome(NamedChannel)
    /\ fnIn.feed.outcome = "ok"
    /\ FeedEntries # {}
Fetched(url) == \E k \in DOMAIN fnEffects : fnEffects[k].url = url
\* The number a parameter's text starts with (after blanks), if any.
Asked(text) ==
    LET t == IF text = Absent THEN <<>> ELSE TrimStart(text)
        run == {k \in DOMAIN t : \A j \in 1..k : t[j] \in Digits}
    IN  IF run = {} THEN None ELSE Some(DigitRun(SubSeq(t, 1, Cardinality(run)), 0))
Asks(text, min, max) == IsSome(Asked(text)) /\ Asked(text)[1] \in min..max

\* C23: a request that names a channel (by a valid channelId, or by a handle
\* that resolves) whose feed is served with entries is answered 200 with
\* that channelId, the video id and title of the feed's first entry, and
\* recentVideoIds = the ids, in feed order, of the entries published within
\* the last recentDays days, cut to the first recentLimit of them, where
\* recentDays and recentLimit are the numbers the days and limit parameters
\* ask for when these lie in 1..90 and 1..100; and with a valid channelId in
\* the request the handle page is never fetched.
C23_LatestAndRecentFromFeed ==
    /\ fnPc = "done" /\ FeedServed =>
          LET first == fnIn.feed.entries[Nth(FeedEntries, 1)]
              count == Min(recentLimit, Cardinality(WithinWindow))
          IN  /\ fnOut[1].status = 200
              /\ fnOut[1].channelId = NamedChannel
              /\ fnOut[1].videoId = first.videoId
              /\ fnOut[1].title = Some(decodeXml(first.title))
              /\ fnOut[1].recentVideoIds =
                     Some([k \in 1..count |-> fnIn.feed.entries[Nth(WithinWindow, k)].videoId[1]])
    /\ CarriesValidChannelId(fnIn.channelId) => ~Fetched("handle-page")
    /\ Asks(fnIn.days, 1, 90) => recentDays = Asked(fnIn.days)[1]
    /\ Asks(fnIn.limit, 1, 100) => recentLimit = Asked(fnIn.limit)[1]
C23_Witness ==
    /\ fnPc = "done"
    /\ FeedServed
    /\ CarriesValidChannelId(fnIn.channelId)
    /\ CarriesValidHandle(fnIn.channel)
    /\ Fetched("feed")
    /\ Asked(fnIn.days) = Some(1)
    /\ Asked(fnIn.limit) = Some(2)
    /\ Cardinality(WithinWindow) = 2
    /\ Nth(FeedEntries, 1) \notin WithinWindow
    /\ fnOut[1].recentVideoIds = Some(<<"v2", "v3">>)

\* A response of the handler is one of its five kinds.
YouTubeTypeOK ==
    /\ fnPc \in {"idle", "resolving", "fetching", "done"}
    /\ fnPc = "done" <=> fnOut # <<>>

-----------------------------------------------------------------------------
\* The AI-papers endpoint's selection (api/ai-papers.js): the papers of the
\* three sources are deduplicated by normalised title and put together under
\* per-source quotas.

Lower(c) ==
    CASE c = "A" -> "a" [] c = "C" -> "c" [] c = "T" -> "t"
      [] c = "U" -> "u" [] c = "X" -> "x" [] c = "Z" -> "z" [] OTHER -> c
RECURSIVE CollapseBlanks(_)
CollapseBlanks(s) ==
    IF Len(s) < 2 THEN s
    ELSE IF s[1] = " " /\ s[2] = " " THEN CollapseBlanks(Tail(s))
    ELSE <<s[1]>> \o CollapseBlanks(Tail(s))
normalizeWhitespace(text) == Trim(CollapseBlanks(text))
normalizeTitle(title) ==
    LET t == normalizeWhitespace(title) IN [i \in DOMAIN t |-> Lower(t[i])]

Paper(title, trustScore, publishedAt) ==
    [title |-> title, trustScore |-> trustScore, publishedAt |-> publishedAt]
SeenTitles(selected) == {normalizeTitle(selected[i].title) : i \in DOMAIN selected}

\* One of the loops over a source: from position i on, push the papers whose
\* key is new, until `cap` of them were added or `limit` papers are selected.
RECURSIVE PushUnique(_, _, _, _, _, _)
PushUnique(papers, i, added, cap, limit, selected) ==
    IF i > Len(papers) \/ added >= cap \/ Len(selected) >= limit THEN selected
    ELSE LET key == normalizeTitle(papers[i].title)
         IN  IF key = <<>> \/ key \in SeenTitles(selected)
             THEN PushUnique(papers, i + 1, added, cap, limit, selected)
             ELSE PushUnique(papers, i + 1, added + 1, cap, limit, Append(selected, papers[i]))

deduplicateByTitle(papers) ==
    PushUnique(papers, 1, 0, Len(papers), Len(papers), <<>>)
ByTrustThenDate(a, b) ==
    \/ a.trustScore > b.trustScore
    \/ a.trustScore = b.trustScore /\ a.publishedAt > b.publishedAt
mergeDeduplicatePapers(primaryPapers, secondaryPapers) ==
    StableSort(deduplicateByTitle(primaryPapers \o secondaryPapers), ByTrustThenDate)

QuotaFloor == 4
AlphaPercent == 20
ArxivPercent == 15
selectBalancedPapers(in) ==
    LET limit == in.limit
        trusted == deduplicateByTitle(in.trustedPapers)
        alpha == deduplicateByTitle(in.alphaXivPapers)
        arxiv == deduplicateByTitle(in.arxivPapers)
        minAlpha == Min(Len(alpha), Max(QuotaFloor, (limit * AlphaPercent) \div 100))
        minArxiv == Min(Len(arxiv), Max(QuotaFloor, (limit * ArxivPercent) \div 100))
        maxTrusted == Min(Len(trusted), Max(0, limit - minAlpha - minArxiv))
        afterTrusted == PushUnique(trusted, 1, 0, maxTrusted, limit, <<>>)
        afterAlpha == PushUnique(alpha, 1, 0, minAlpha, limit, afterTrusted)
        afterArxiv == PushUnique(arxiv, 1, 0, minArxiv, limit, afterAlpha)
        fallback == mergeDeduplicatePapers(trusted, alpha \o arxiv)
        selected == IF Len(afterArxiv) < limit
                    THEN PushUnique(fallback, 1, 0, Len(fallback), limit, afterArxiv)
                    ELSE afterArxiv
    IN  Take(selected, limit)

\* Inputs as the three fetchers hand them over: conference papers track by
\* track (trust 100 before 96, newest first in a track), alphaXiv papers by
\* trust then date, arXiv papers (trust 45) newest first; an arXiv paper may
\* bear the title of an alphaXiv paper in another spelling.
MaxTrustedPapers == 3
MaxAlphaPapers == 6
MaxArxivPapers == 5
TrustedList(n, high) ==
    [i \in 1..n |-> Paper(<<"t", DigitChars[i + 1]>>, IF i <= high THEN 100 ELSE 96, 50 - i)]
AlphaList(n, high) ==
    [i \in 1..n |-> Paper(<<"a", DigitChars[i + 1]>>, IF i <= high THEN 72 ELSE 50, 40 - i)]
ArxivList(n, shared) ==
    [i \in 1..n |-> Paper(IF shared THEN <<" ", "A", DigitChars[i + 1]>>
                          ELSE <<"x", DigitChars[i + 1]>>, 45, 45 - i)]
PaperLimits == {10, 12}
PaperInputs(maxTrusted, maxAlpha, maxArxiv) ==
    {[trustedPapers |-> TrustedList(t[1], t[2]), alphaXivPapers |-> AlphaList(a[1], a[2]),
      arxivPapers |-> ArxivList(x, shared), limit |-> limit] :
        t \in {p \in (0..maxTrusted) \X (0..maxTrusted) : p[2] <= p[1]},
        a \in {p \in (0..maxAlpha) \X (0..maxAlpha) : p[2] <= p[1]},
        x \in 0..maxArxiv, shared \in BOOLEAN, limit \in PaperLimits}

ApplySelect ==
    /\ fnOut = <<>>
    /\ fnOut' = <<selectBalancedPapers(fnIn)>>
    /\ UNCHANGED <<vars, dedupVars, fnIn, fnPc, fnEffects, liveVars, hybridVars>>
PapersInit ==
    /\ Quiet
    /\ fnIn \in PaperInputs(MaxTrustedPapers, MaxAlphaPapers, MaxArxivPapers)
    /\ fnOut = <<>>
SpecPapers == PapersInit /\ [][ApplySelect]_allVars

\* C24: the selected list is ordered by non-increasing trustScore, and among
\* papers of equal trustScore the newer publication date comes first.
C24_SelectedRankedByTrustThenDate ==
    fnOut # <<>> =>
        \A i, j \in DOMAIN fnOut[1] :
            i < j => \/ fnOut[1][i].trustScore > fnOut[1][j].trustScore
                     \/ /\ fnOut[1][i].trustScore = fnOut[1][j].trustScore
                        /\ fnOut[1][i].publishedAt >= fnOut[1][j].publishedAt

-----------------------------------------------------------------------------
\* fetchLatestChannelVideos (services/live-news.ts): the client of the
\* latest-upload endpoint, with its five-minute cache.  Time is in minutes.

CACHE_TTL == 5
MaxClock == 6
EmptyVideos == [videoId |-> None, recentVideoIds |-> <<>>]
\* What the endpoint's JSON may hold: a video id (absent, empty or not), and
\* recentVideoIds that is no array or holds strings and other values.
Element(isString, text) == [isString |-> isString, text |-> text]
Payloads ==
    {[videoId |-> v, recentVideoIds |-> r] :
        v \in {None, Some(""), Some("v1")},
        r \in {None, Some(<<>>), Some(<<Element(TRUE, "v1"), Element(FALSE, "7")>>)}}
IsStringElement(e) == e.isString
Normalize(data) ==
    [videoId |-> IF data.videoId = Some("") THEN None ELSE data.videoId,
     recentVideoIds |->
        IF IsSome(data.recentVideoIds)
        THEN LET kept == Filter(data.recentVideoIds[1], IsStringElement)
             IN  [i \in DOMAIN kept |-> kept[i].text]
        ELSE <<>>]
CacheEntry(data, timestamp) == [data |-> data, timestamp |-> timestamp]

\* `days = 14`
DefaultLiveDays == 14
LiveDays == {None, Some(7)}

\* the arguments of the call in progress or last made, and its cache key
LiveArgs(channelHandle, channelId, days) ==
    [channelHandle |-> channelHandle, channelId |-> channelId,
     days |-> IF IsSome(days) THEN days[1] ELSE DefaultLiveDays]
LiveKey == cacheKey(fnIn.channelHandle, fnIn.channelId)

\* The call up to its await: a fresh cached entry is returned at once.
LiveCall(channelHandle, channelId, days) ==
    /\ fnPc = "idle"
    /\ fnIn' = LiveArgs(channelHandle, channelId, days)
    /\ LET cached == liveVideoCache[cacheKey(channelHandle, channelId)]
       IN  IF IsSome(cached) /\ wallClock - cached[1].timestamp < CACHE_TTL
           THEN /\ fnOut' = <<cached[1].data>>
                /\ fnEffects' = <<"cached">>
                /\ fnPc' = "idle"
           ELSE /\ fnOut' = <<>>
                /\ fnEffects' = <<"fetch">>
                /\ fnPc' = "fetching"
    /\ UNCHANGED <<vars, dedupVars, liveVars, hybridVars>>

\* The endpoint answers with JSON: the result is normalised, cached and returned.
LiveFetchSucceeds(data) ==
    /\ fnPc = "fetching"
    /\ fnEffects = <<"fetch">>
    /\ liveVideoCache' =
           [liveVideoCache EXCEPT ![LiveKey] = Some(CacheEntry(Normalize(data), wallClock))]
    /\ storedFor' = [storedFor EXCEPT ![LiveKey] = Some(fnIn)]
    /\ fnOut' = <<Normalize(data)>>
    /\ fnEffects' = <<"stored">>
    /\ fnPc' = "idle"
    /\ UNCHANGED <<vars, dedupVars, fnIn, wallClock, hybridVars>>

\* mutant: a failed fetch drops the entry stored under the key
LiveFetchFailsEvicts ==
    /\ fnPc = "fetching"
    /\ fnEffects = <<"fetch">>
    /\ liveVideoCache' = [liveVideoCache EXCEPT ![LiveKey] = None]
    /\ storedFor' = [storedFor EXCEPT ![LiveKey] = None]
    /\ fnOut' = <<EmptyVideos>>
    /\ fnEffects' = <<"failed">>
    /\ fnPc' = "idle"
    /\ UNCHANGED <<vars, dedupVars, fnIn, wallClock, hybridVars>>

\* fetch rejects, the status is not ok, or the body is no JSON: the catch block.
LiveFetchFails ==
    /\ fnPc = "fetching"
    /\ fnEffects = <<"fetch">>
    /\ fnOut' = <<EmptyVideos>>
    /\ fnEffects' = <<"failed">>
    /\ fnPc' = "idle"
    /\ UNCHANGED <<vars, dedupVars, fnIn, liveVars, hybridVars>>

LiveTick(minutes) ==
    /\ wallClock + minutes <= MaxClock
    /\ wallClock' = wallClock + minutes
    /\ UNCHANGED <<vars, dedupVars, fnIn, fnOut, fnPc, fnEffects, liveVideoCache,
                   storedFor, hybridVars>>

LiveNext ==
    \/ \E channelHandle \in LiveHandles, channelId \in LiveChannelIds, days \in LiveDays :
           LiveCall(channelHandle, channelId, days)
    \/ \E data \in Payloads : LiveFetchSucceeds(data)
    \/ LiveFetchFails
    \/ \E minutes \in {1, CACHE_TTL} : LiveTick(minutes)
LiveInit == Init
SpecLive == LiveInit /\ [][LiveNext]_allVars

\* C25: when the live fetch has failed, the call returns the data cached
\* under its key if there is such an entry, however old, and the empty
\* result only if there is none.
C25_FailureServesCachedData ==
    fnEffects = <<"failed">> =>
        IF IsSome(liveVideoCache[LiveKey])
        THEN fnOut = <<liveVideoCache[LiveKey][1].data>>
        ELSE fnOut = <<EmptyVideos>>

-----------------------------------------------------------------------------
\* The manager under fair scheduling: the continuation of a call is a
\* microtask and runs; a timer that is armed and not cancelled fires.  Worker
\* events, new calls, reset() and terminate() may or may not happen.

Continues(i) ==
    /\ i \in CallIds
    /\ Dispatch(i) \/ ClusterFallback(i) \/ CorrelationFallback(i)
TimerFires(i) == i \in CallIds /\ RequestTimeoutFires(i)
Fairness ==
    /\ \A i \in 1..MaxCalls : WF_allVars(Continues(i))
    /\ \A i \in 1..MaxCalls : WF_allVars(TimerFires(i))
    /\ WF_allVars(ReadyTimeoutFires)
SpecFair == Init /\ [][Next]_allVars /\ Fairness

HasSettled(i) == i \in CallIds /\ Settled(calls[i])

\* C26: every call of clusterNews or analyzeCorrelations eventually settles
\* (resolves or rejects), whatever the worker, the timers, reset() and
\* terminate() do, provided the armed timers fire.
C26_EveryCallSettles ==
    \A i \in 1..MaxCalls : (i \in CallIds) ~> HasSettled(i)

\* C27: a request is registered in the pending map and posted only while a
\* worker exists and has completed the ready handshake: no call gets past
\* the readiness wait to the dispatch with the worker null or not Ready.
C27_DispatchOnlyWhenReady ==
    [][\A i \in CallIds : Dispatch(i) => worker # NULL /\ isReady]_allVars

\* the calls that were dispatched and are not settled
Unsettled == {i \in CallIds : calls[i].id # NoId /\ ~Settled(calls[i])}

\* C28: in every reachable state the pending map holds exactly the requests
\* that were dispatched and whose call is still unsettled, each under its own
\* id and with its timeout armed; no entry remains for a settled call.
C28_PendingMapIsUnsettledRequests ==
    /\ PendingCalls = Unsettled
    /\ \A k \in DOMAIN pendingRequests : calls[pendingRequests[k]].id = k
    /\ requestTimers = PendingCalls

\* a response whose request is no longer in the pending map
LateResponse(m) == m \in posted /\ m.id \notin DOMAIN pendingRequests

\* C29: a call is settled at most once: once it has resolved or rejected, no
\* step changes its outcome; a response that arrives after its request left
\* the pending map, and a timer that fires for a settled call, settle nothing
\* and leave the other pending requests and their timers as they are.
C29_SettledAtMostOnce ==
    /\ [][\A i \in CallIds : Settled(calls[i]) => calls'[i] = calls[i]]_allVars
    /\ [][\A m \in posted, stamp \in Stamps :
            (LateResponse(m) /\ OnMessageResult(m, stamp)) =>
                UNCHANGED <<calls, pendingRequests, requestTimers>>]_allVars
    /\ [][\A i \in CallIds :
            (Settled(calls[i]) /\ RequestTimeoutFires(i)) =>
                /\ calls' = calls
                /\ \A k \in DOMAIN pendingRequests \ {calls[i].id} :
                      k \in DOMAIN pendingRequests' /\ pendingRequests'[k] = pendingRequests[k]
                /\ requestTimers' = requestTimers \ {i}]_allVars

\* a request timed out, its response came late, and the other request is
\* still pending
C29_Witness ==
    \E i, j \in CallIds :
        /\ i # j
        /\ calls[i].result = Failure(TimeoutError(calls[i].kind))
        /\ [type |-> calls[i].kind, id |-> calls[i].id] \notin posted
        /\ ~calls[i].afterTerminate
        /\ ~calls[j].afterTerminate
        /\ calls[j].pc = "pending"
        /\ calls[j].id \in DOMAIN pendingRequests
        /\ j \in requestTimers

\* The manager after an earlier call whose handshake timed out and which was
\* served by the fallback: the error is recorded, the worker is gone, nothing
\* is pending.  That call is settled and is left out of `calls`.
UnavailableInit ==
    /\ worker = NULL
    /\ pendingRequests = EmptyMap
    /\ requestTimers = {}
    /\ requestIdCounter = 0
    /\ isReady = FALSE
    /\ workerUnavailableError = ReadyTimeoutError
    /\ fallbackSnapshot = NullSnapshot
    /\ recentSignalKeys = {}
    /\ keyTimers = [k \in Keys |-> 0]
    /\ readyPromise = NULL
    /\ readyTimeout = FALSE
    /\ posted = {}
    /\ calls = <<>>
    /\ sinceTerminate = FALSE
    /\ DedupInit
    /\ PureIdle
SpecUnavailable == UnavailableInit /\ [][Next]_allVars

\* C30: in every reachable state, a recorded unavailability error goes with
\* no worker, the ready flag false and no handshake timer armed; and the
\* ready flag true goes with a worker and no recorded error.
C30_UnavailableAndReadyExclude ==
    /\ Unavailable => worker = NULL /\ ~isReady /\ ~readyTimeout
    /\ isReady => worker # NULL /\ ~Unavailable

\* a call is executed in-process
RunsFallback(i) == ClusterFallback(i) \/ CorrelationFallback(i)

\* C31: a request is executed in-process (and the fallback snapshot read or
\* written) only in a state where the manager holds no worker; with a Ready
\* worker a request is delegated to it.
C31_FallbackOnlyWithoutWorker ==
    [][\A i \in CallIds : RunsFallback(i) => worker = NULL]_allVars

\* the calls that complete an in-process correlation run in this step
CompletesFallback ==
    {i \in CallIds : /\ i \in DOMAIN calls'
                     /\ calls[i].kind = "correlation"
                     /\ calls[i].pc # "fellback"
                     /\ calls'[i].pc = "fellback"}

\* C32: fallback correlation runs form one chain. Each run stores the
\* snapshot it returns (the successor of the one it received, built from its
\* own input, signals or not), runs never overlap, and between two runs the
\* stored snapshot changes only when reset() or terminate() sets it to null.
C32_FallbackSnapshotChain ==
    [][/\ Cardinality(CompletesFallback) <= 1
       /\ \A i \in CompletesFallback :
            /\ fallbackSnapshot'.run = fallbackSnapshot.run + 1
            /\ fallbackSnapshot'.of = calls[i].input
       /\ CompletesFallback = {} /\ fallbackSnapshot' # fallbackSnapshot
            => /\ fallbackSnapshot' = NullSnapshot
               /\ Reset \/ Terminate]_allVars

\* two chained runs, the second of which emitted no signal
C32_Witness ==
    /\ fallbackSnapshot.run = 2
    /\ \E i \in DOMAIN calls :
         /\ calls[i].kind = "correlation"
         /\ calls[i].pc = "fellback"
         /\ calls[i].result.val = {}
         /\ fallbackSnapshot.of = calls[i].input

\* what decides how the next call is served
Readiness == <<worker, isReady, workerUnavailableError>>

\* C33: once the ready message has been received the handshake timer is
\* cancelled, and from then on only terminate() changes the readiness state:
\* neither a timer expiry nor a worker error nor a call moves the manager out
\* of Ready.
C33_ReadyLeftOnlyByTerminate ==
    /\ [](isReady => ~readyTimeout /\ worker # NULL)
    /\ [][isReady /\ Readiness' # Readiness => Terminate]_allVars

\* a worker error after the handshake rejected a request and the manager is
\* still Ready
C33_Witness ==
    /\ isReady
    /\ worker # NULL
    /\ workerUnavailableError = NULL
    /\ \E i \in DOMAIN calls : calls[i].result = Failure(WorkerError)

\* ------------------------------------------------ withExponentialBackoff
\* One call of withExponentialBackoff(operation, options). fnIn is the
\* options object, fnPc the position of the call ("idle" before the call,
\* "operating" while operation() is pending, "sleeping" during the delay,
\* "returned" / "threw" once the call has settled), fnOut the settlement and
\* fnEffects the log of what the call did: every invocation of the operation
\* and its outcome, every shouldRetry and onRetry callback, every sleep.
\* maxAttempts is given in tenths so that Math.floor has something to
\* floor, jitterRatio in percent and Math.random() in quarters; the other
\* numbers are whole milliseconds and whole factors.
DEFAULT_MAX_ATTEMPTS == 3
DEFAULT_INITIAL_DELAY_MS == 400
DEFAULT_FACTOR == 2
DEFAULT_MAX_DELAY_MS == 5000
DEFAULT_JITTER_PERCENT == 20

\* a ?? b on an optional number
OrDefault(option, default) == IF IsSome(option) THEN option[1] ELSE default

\* Math.round of the fraction num / den (den > 0): floor(x + 0.5)
Round(num, den) == (2 * num + den) \div (2 * den)

RECURSIVE Pow(_, _)
Pow(base, exponent) == IF exponent = 0 THEN 1 ELSE base * Pow(base, exponent - 1)

\* the values Math.random() takes, in quarters: 0 <= random < 1
RandomQuarters == 0..3

\* mutant: the jitter is added after the cap
computeDelayMsJitterUncapped(failedAttempt, initialMs, growth, maxMs, jitterPercent, random) ==
    LET raw == Min(maxMs, initialMs * Pow(growth, Max(0, failedAttempt - 1)))
        jitter == Round(raw * jitterPercent * random, 400)
    IN  raw + jitter

computeDelayMs(failedAttempt, initialMs, growth, maxMs, jitterPercent, random) ==
    LET raw == Min(maxMs, initialMs * Pow(growth, Max(0, failedAttempt - 1)))
        jitter == Round(raw * jitterPercent * random, 400)
    IN  Min(maxMs, raw + jitter)

\* mutant: maxAttempts is floored but not clamped
maxAttemptsUnclamped ==
    OrDefault(fnIn.maxAttemptsTenths, 10 * DEFAULT_MAX_ATTEMPTS) \div 10

\* the options as withExponentialBackoff normalizes them
maxAttempts == Max(1, OrDefault(fnIn.maxAttemptsTenths, 10 * DEFAULT_MAX_ATTEMPTS) \div 10)
initialDelayMs == Max(0, OrDefault(fnIn.initialDelayMs, DEFAULT_INITIAL_DELAY_MS))
factor == Max(1, OrDefault(fnIn.factor, DEFAULT_FACTOR))
maxDelayMs == Max(initialDelayMs, OrDefault(fnIn.maxDelayMs, DEFAULT_MAX_DELAY_MS))
jitterRatio == Max(0, OrDefault(fnIn.jitterPercent, DEFAULT_JITTER_PERCENT))

\* what an operation rejects with
HttpStatusError(status) == [name |-> "HttpStatusError", status |-> status]
AbortError == [name |-> "AbortError", status |-> 0]
NoError == [name |-> "none", status |-> 0]
ExhaustedError == [name |-> "Retry attempts exhausted", status |-> 0]
OperationErrors == {HttpStatusError(503), HttpStatusError(404), AbortError}
OperationValues == {"first", "second"}

isRetryableHttpStatus(status) ==
    status = 408 \/ status = 425 \/ status = 429 \/ (status >= 500 /\ status <= 599)

isRetryableFetchError(error) ==
    IF error.name = "HttpStatusError" THEN isRetryableHttpStatus(error.status)
    ELSE IF error.name = "AbortError" THEN FALSE
    ELSE TRUE

\* options.shouldRetry ?? (() => true); the predicates a caller passes are
\* fetchAIPapers' isRetryableFetchError and one that never retries
shouldRetry(error) ==
    CASE fnIn.shouldRetry = "absent" -> TRUE
      [] fnIn.shouldRetry = "isRetryableFetchError" -> isRetryableFetchError(error)
      [] fnIn.shouldRetry = "never" -> FALSE

Logged(event, n, error, value, delayMs) ==
    [event |-> event, attempt |-> n, error |-> error, value |-> value, delayMs |-> delayMs]

Invocation(n) == Logged("operation", n, NoError, "", 0)

IsInvocation(entry) == entry.event = "operation"

\* the loop variable: the number of the attempt in progress
attempt == Len(SelectSeq(fnEffects, IsInvocation))

IsRejection(entry) == entry.event = "rejected"

\* let lastError: the error of the latest failed attempt
lastError ==
    LET rejections == SelectSeq(fnEffects, IsRejection)
    IN  IF rejections = <<>> THEN NoError ELSE rejections[Len(rejections)].error

Throws(error) == <<[tag |-> "error", value |-> "", error |-> error]>>

\* the statement after the loop
ThrowLastError == Throws(IF lastError # NoError THEN lastError ELSE ExhaustedError)

\* the call, up to the first operation(): the loop starts with attempt = 1
BackoffCall ==
    /\ fnPc = "idle"
    /\ IF 1 <= maxAttempts
       THEN /\ fnEffects' = <<Invocation(1)>>
            /\ fnPc' = "operating"
            /\ fnOut' = fnOut
       ELSE /\ fnEffects' = fnEffects
            /\ fnPc' = "threw"
            /\ fnOut' = ThrowLastError
    /\ UNCHANGED <<vars, dedupVars, fnIn, liveVars, hybridVars>>

\* return await operation()
OperationFulfils(value) ==
    /\ fnPc = "operating"
    /\ fnEffects' = Append(fnEffects, Logged("fulfilled", attempt, NoError, value, 0))
    /\ fnOut' = <<[tag |-> "value", value |-> value, error |-> NoError]>>
    /\ fnPc' = "returned"
    /\ UNCHANGED <<vars, dedupVars, fnIn, liveVars, hybridVars>>

\* mutant: the final attempt's failure is put to shouldRetry as well
CatchAsksFirst(error, random) ==
    LET rejected == Logged("rejected", attempt, error, "", 0)
        asked == Logged("shouldRetry", attempt, error,
                        IF shouldRetry(error) THEN "true" ELSE "false", 0)
        delayMs == computeDelayMs(attempt, initialDelayMs, factor, maxDelayMs,
                                  jitterRatio, random)
        called == IF fnIn.onRetry
                  THEN <<Logged("onRetry", attempt, error, "", delayMs)>> ELSE <<>>
    IN  IF ~shouldRetry(error) \/ ~(attempt < maxAttempts)
        THEN [log |-> <<rejected, asked>>, pc |-> "threw",
              out |-> Throws(error)]
        ELSE [log |-> <<rejected, asked>> \o called
                         \o <<Logged("sleep", attempt, NoError, "", delayMs)>>,
              pc |-> "sleeping", out |-> <<>>]

\* mutant: onRetry is told of the final failure too
CatchAlwaysCallsOnRetry(error, random) ==
    LET rejected == Logged("rejected", attempt, error, "", 0)
        hasNextAttempt == attempt < maxAttempts
        asked == IF hasNextAttempt
                 THEN <<Logged("shouldRetry", attempt, error,
                               IF shouldRetry(error) THEN "true" ELSE "false", 0)>>
                 ELSE <<>>
        delayMs == computeDelayMs(attempt, initialDelayMs, factor, maxDelayMs,
                                  jitterRatio, random)
        called == IF fnIn.onRetry
                  THEN <<Logged("onRetry", attempt, error, "", delayMs)>> ELSE <<>>
    IN  IF ~hasNextAttempt \/ ~shouldRetry(error)
        THEN [log |-> <<rejected>> \o asked \o called, pc |-> "threw",
              out |-> Throws(error)]
        ELSE [log |-> <<rejected>> \o asked \o called
                         \o <<Logged("sleep", attempt, NoError, "", delayMs)>>,
              pc |-> "sleeping", out |-> <<>>]

\* the catch block: what it logs, where it leaves the call and what it throws
Catch(error, random) ==
    LET rejected == Logged("rejected", attempt, error, "", 0)
        hasNextAttempt == attempt < maxAttempts
        asked == IF hasNextAttempt
                 THEN <<Logged("shouldRetry", attempt, error,
                               IF shouldRetry(error) THEN "true" ELSE "false", 0)>>
                 ELSE <<>>
        delayMs == computeDelayMs(attempt, initialDelayMs, factor, maxDelayMs,
                                  jitterRatio, random)
        called == IF fnIn.onRetry
                  THEN <<Logged("onRetry", attempt, error, "", delayMs)>> ELSE <<>>
    IN  IF ~hasNextAttempt \/ ~shouldRetry(error)
        THEN [log |-> <<rejected>> \o asked, pc |-> "threw",
              out |-> Throws(error)]
        ELSE [log |-> <<rejected>> \o asked \o called
                         \o <<Logged("sleep", attempt, NoError, "", delayMs)>>,
              pc |-> "sleeping", out |-> <<>>]

\* operation() rejects: the catch block runs
OperationRejects(error, random) ==
    /\ fnPc = "operating"
    /\ LET caught == Catch(error, random) IN
         /\ fnEffects' = fnEffects \o caught.log
         /\ fnPc' = caught.pc
         /\ fnOut' = caught.out
    /\ UNCHANGED <<vars, dedupVars, fnIn, liveVars, hybridVars>>

\* mutant: the call gives up after the first delay
SleepEndsGivesUp ==
    /\ fnPc = "sleeping"
    /\ fnPc' = "threw"
    /\ fnOut' = ThrowLastError
    /\ fnEffects' = fnEffects
    /\ UNCHANGED <<vars, dedupVars, fnIn, liveVars, hybridVars>>

\* the sleep timer fires: attempt += 1, the loop test, the next operation();
\* past the loop the last error is thrown
SleepEnds ==
    /\ fnPc = "sleeping"
    /\ IF attempt + 1 <= maxAttempts
       THEN /\ fnEffects' = Append(fnEffects, Invocation(attempt + 1))
            /\ fnPc' = "operating"
            /\ fnOut' = fnOut
       ELSE /\ fnEffects' = fnEffects
            /\ fnPc' = "threw"
            /\ fnOut' = ThrowLastError
    /\ UNCHANGED <<vars, dedupVars, fnIn, liveVars, hybridVars>>

BackoffNext ==
    \/ BackoffCall
    \/ \E value \in OperationValues : OperationFulfils(value)
    \/ \E error \in OperationErrors, random \in RandomQuarters :
           OperationRejects(error, random)
    \/ SleepEnds

\* the largest maxAttempts a caller passes
MaxBackoffAttempts == 3

Optional(numbers) == {None} \cup {Some(n) : n \in numbers}

\* calls that vary the attempt limit and the callbacks, and calls that vary
\* the delay parameters
BackoffInputs(max) ==
    {[maxAttemptsTenths |-> tenths, initialDelayMs |-> Some(500), factor |-> Some(2),
      maxDelayMs |-> Some(5000), jitterPercent |-> Some(20),
      shouldRetry |-> retry, onRetry |-> onRetry] :
        tenths \in Optional({0 - 10, 0, 9, 25} \cup {10 * n : n \in 1..max}),
        retry \in {"absent", "isRetryableFetchError", "never"},
        onRetry \in BOOLEAN}
    \cup
    {[maxAttemptsTenths |-> Some(10 * max), initialDelayMs |-> initial, factor |-> growth,
      maxDelayMs |-> maxMs, jitterPercent |-> jitter,
      shouldRetry |-> "absent", onRetry |-> TRUE] :
        initial \in Optional({0 - 5, 0, 3}),
        growth \in Optional({0, 1, 3}),
        maxMs \in Optional({2, 10}),
        jitter \in Optional({0 - 50, 0, 300})}

BackoffInit ==
    /\ Quiet
    /\ fnIn \in BackoffInputs(MaxBackoffAttempts)
    /\ fnOut = <<>>

SpecBackoff == BackoffInit /\ [][BackoffNext]_allVars

Invocations == SelectSeq(fnEffects, IsInvocation)
BackoffSettled == fnPc \in {"returned", "threw"}

\* the position in the log of the first fulfilled attempt, 0 if there is none
FirstFulfilled ==
    IF \E k \in DOMAIN fnEffects : fnEffects[k].event = "fulfilled"
    THEN CHOOSE k \in DOMAIN fnEffects :
             /\ fnEffects[k].event = "fulfilled"
             /\ \A j \in 1..(k - 1) : fnEffects[j].event # "fulfilled"
    ELSE 0

\* the floor of the maxAttempts option, at least 1
AttemptLimit ==
    LET tenths == OrDefault(fnIn.maxAttemptsTenths, 10 * DEFAULT_MAX_ATTEMPTS)
        floor == CHOOSE n \in (0 - 2)..(MaxBackoffAttempts + 1) :
                     10 * n <= tenths /\ tenths < 10 * (n + 1)
    IN  IF floor < 1 THEN 1 ELSE floor

\* C34: the operation is invoked at least once and at most maxAttempts times
\* (the floor of the option, at least 1), one attempt at a time, and never
\* again after the first attempt that succeeds, whose value is returned.
C34_AttemptsBoundedAndStopAtSuccess ==
    /\ fnPc # "idle" => Len(Invocations) >= 1
    /\ Len(Invocations) <= AttemptLimit
    /\ \A k \in DOMAIN Invocations : Invocations[k].attempt = k
    /\ \A k \in DOMAIN fnEffects :
         fnEffects[k].event = "operation" /\ k > 1
             => fnEffects[k - 1].event = "sleep"
    /\ FirstFulfilled # 0 =>
         /\ FirstFulfilled = Len(fnEffects)
         /\ fnPc = "returned"
         /\ fnOut = <<[tag |-> "value", value |-> fnEffects[FirstFulfilled].value,
                       error |-> NoError]>>
    /\ fnPc = "returned" => FirstFulfilled # 0

\* the call returned the value of its last allowed attempt, after failures
C34_Witness ==
    /\ fnPc = "returned"
    /\ Len(Invocations) = AttemptLimit
    /\ AttemptLimit = 2
    /\ fnIn.maxAttemptsTenths = Some(25)
    /\ fnOut[1].value = "second"

\* C35: when shouldRetry answers false for a failed attempt, that attempt's
\* error is thrown at once (no onRetry, no sleep, no further attempt), and
\* shouldRetry is never asked about the failure of the final allowed attempt.
C35_RefusedRetryThrowsAtOnce ==
    \A k \in DOMAIN fnEffects :
        fnEffects[k].event = "shouldRetry" =>
            /\ fnEffects[k].attempt < AttemptLimit
            /\ fnEffects[k - 1].event = "rejected"
            /\ fnEffects[k - 1].attempt = fnEffects[k].attempt
            /\ fnEffects[k - 1].error = fnEffects[k].error
            /\ fnEffects[k].value = "false" =>
                 /\ k = Len(fnEffects)
                 /\ fnPc = "threw"
                 /\ fnOut = Throws(fnEffects[k].error)

\* fetchAIPapers' predicate let a 503 be retried and refused the 404 of the
\* second of three attempts
C35_Witness ==
    /\ fnPc = "threw"
    /\ fnIn.shouldRetry = "isRetryableFetchError"
    /\ fnIn.onRetry
    /\ AttemptLimit = 3
    /\ Len(Invocations) = 2
    /\ fnEffects[Len(fnEffects)].event = "shouldRetry"
    /\ fnEffects[Len(fnEffects)].value = "false"
    /\ fnOut = Throws(HttpStatusError(404))

IsOnRetry(entry) == entry.event = "onRetry"
OnRetries == SelectSeq(fnEffects, IsOnRetry)
Rejections == SelectSeq(fnEffects, IsRejection)

\* shouldRetry allowed every retry it was asked about
AlwaysAllowed ==
    \A k \in DOMAIN fnEffects :
        fnEffects[k].event = "shouldRetry" => fnEffects[k].value = "true"

\* C36: when every attempt fails and shouldRetry always allows retrying, the
\* call throws the error of the last (maxAttempts-th) attempt, and onRetry
\* has been called exactly maxAttempts - 1 times, with failedAttempt = 1, 2,
\* ... in that order, each call carrying that attempt's error and followed by
\* the sleep and the next attempt.
C36_ExhaustionThrowsLastError ==
    fnPc = "threw" /\ AlwaysAllowed =>
        /\ Len(Rejections) = AttemptLimit
        /\ \A k \in DOMAIN Rejections : Rejections[k].attempt = k
        /\ fnOut = Throws(Rejections[AttemptLimit].error)
        /\ fnIn.onRetry =>
             /\ Len(OnRetries) = AttemptLimit - 1
             /\ \A k \in DOMAIN OnRetries :
                  /\ OnRetries[k].attempt = k
                  /\ OnRetries[k].error = Rejections[k].error
        /\ \A p \in DOMAIN fnEffects :
             fnEffects[p].event = "onRetry" =>
                 /\ fnEffects[p + 1].event = "sleep"
                 /\ fnEffects[p + 1].delayMs = fnEffects[p].delayMs
                 /\ fnEffects[p + 2] = Invocation(fnEffects[p].attempt + 1)
        /\ ~fnIn.onRetry => OnRetries = <<>>

\* three attempts failed with different errors; the last one is thrown
C36_Witness ==
    /\ fnPc = "threw"
    /\ AlwaysAllowed
    /\ fnIn.onRetry
    /\ AttemptLimit = 3
    /\ Len(OnRetries) = 2
    /\ Rejections[1].error = HttpStatusError(503)
    /\ Rejections[2].error = AbortError
    /\ fnOut = Throws(HttpStatusError(404))

\* the un-jittered base of the delay before re-attempt k
BaseDelayMs(k) == Min(maxDelayMs, initialDelayMs * Pow(factor, k - 1))

\* C37: the delay slept before re-attempt k lies between the un-jittered base
\* min(maxDelayMs, initialDelayMs * factor^(k-1)) and maxDelayMs inclusive;
\* the base does not decrease with k, and maxDelayMs is at least
\* initialDelayMs.
C37_DelayBetweenBaseAndMax ==
    /\ maxDelayMs >= initialDelayMs
    /\ \A k \in 1..MaxBackoffAttempts : BaseDelayMs(k) <= BaseDelayMs(k + 1)
    /\ \A p \in DOMAIN fnEffects :
         fnEffects[p].event \in {"sleep", "onRetry"} =>
             /\ BaseDelayMs(fnEffects[p].attempt) <= fnEffects[p].delayMs
             /\ fnEffects[p].delayMs <= maxDelayMs

\* one delay was raised by jitter and stayed under the cap, a later one was
\* cut down to the cap
C37_Witness ==
    \E p, q \in DOMAIN fnEffects :
        /\ p < q
        /\ fnEffects[p].event = "sleep"
        /\ fnEffects[q].event = "sleep"
        /\ fnEffects[p].delayMs > BaseDelayMs(fnEffects[p].attempt)
        /\ fnEffects[p].delayMs < maxDelayMs
        /\ BaseDelayMs(fnEffects[q].attempt) < maxDelayMs
        /\ fnEffects[q].delayMs = maxDelayMs
        /\ BaseDelayMs(fnEffects[p].attempt) < BaseDelayMs(fnEffects[q].attempt)

\* ------------------------------------------------ the live-news cache
\* an entry stored under the key less than five minutes ago
FreshEntry(key) ==
    /\ liveVideoCache[key] # <<>>
    /\ \E age \in 0..(CACHE_TTL - 1) : liveVideoCache[key][1].timestamp + age = wallClock

\* a step in which fetchLatestChannelVideos is called: between calls only the
\* clock moves
CallMade == fnPc = "idle" /\ wallClock' = wallClock

\* C38: a call whose key has an entry stored less than 5 minutes ago makes no
\* request and returns the stored data; with no entry or one 5 minutes old or
\* older it fetches. Only a successful fetch writes the cache: a failed one
\* leaves every entry as it was, so the call after a failure fetches again.
C38_FreshEntryServedFailureStoresNothing ==
    /\ [][CallMade =>
            IF FreshEntry(LiveKey')
            THEN /\ fnEffects' = <<"cached">>
                 /\ fnPc' = "idle"
                 /\ fnOut' = <<liveVideoCache[LiveKey'][1].data>>
            ELSE /\ fnEffects' = <<"fetch">>
                 /\ fnPc' = "fetching"]_allVars
    /\ [][liveVideoCache' # liveVideoCache
            => \E data \in Payloads : LiveFetchSucceeds(data)]_allVars
    /\ [][LiveFetchFails => liveVideoCache' = liveVideoCache]_allVars
    /\ [](fnEffects = <<"failed">> => ~FreshEntry(LiveKey))

\* served from an entry stored four minutes earlier
C38_Witness ==
    /\ fnEffects = <<"cached">>
    /\ liveVideoCache[LiveKey] # <<>>
    /\ liveVideoCache[LiveKey][1].timestamp + CACHE_TTL - 1 = wallClock
    /\ fnOut = <<liveVideoCache[LiveKey][1].data>>
    /\ fnOut[1].videoId = Some("v1")

\* the channel id a call sends to the endpoint: none when the argument is
\* omitted or empty
SentChannelId(args) ==
    IF Len(args.channelId) > 0 /\ Len(args.channelId[1]) > 0 THEN args.channelId ELSE <<>>

\* C39: a result served from the cache was stored by a successful fetch made
\* with the same channelHandle, the same channelId and the same days window
\* as the call it is served to.
C39_CachedResultMatchesCall ==
    fnEffects = <<"cached">> =>
        /\ storedFor[LiveKey] # <<>>
        /\ storedFor[LiveKey][1].channelHandle = fnIn.channelHandle
        /\ SentChannelId(storedFor[LiveKey][1]) = SentChannelId(fnIn)
        /\ storedFor[LiveKey][1].days = fnIn.days

====
